---- MODULE Spec2Model ----
(***************************************************************************)
(* Model of anvil's `sketch create` pipeline (src/anvil/commands/sketch.py) *)
(* once the v0 response has arrived: parse_code_blocks extracts a mapping  *)
(* filename -> body from the markdown text with one regular expression,    *)
(* and create_files writes each entry below the base directory.            *)
(*                                                                         *)
(* Text is a sequence of characters.  A character is a one-character       *)
(* string, except the backtick and the double quote, which are written BT  *)
(* and DQ.                                                                 *)
(***************************************************************************)
EXTENDS Integers, Sequences, FiniteSets, TLC

VARIABLES
    doc,        \* the authored fenced blocks / prose lines of the response
    unclosed,   \* index of the block whose closing fence is missing (0: none)
    content,    \* the response text handed to parse_code_blocks
    matches,    \* parse_code_blocks: the list re.findall returned
    files,      \* the mapping built by parse_code_blocks (insertion ordered)
    idx,        \* create_files: position of the for loop in files.items()
    fs,         \* the file system: the regular files, by resolved path
    dirs,       \* the file system: the directories, by resolved path
    out,        \* what create_files / generate printed
    pc,         \* position of generate(): "response", "create", "done", "exit1"
    stream,     \* stream_v0_response: the lines the server sends, as authored
    requests,   \* the HTTP requests issued so far
    status,     \* the status code of the response (0: none yet)
    fault,      \* the transport error raised: "none", "timeout", "network"
    received,   \* the lines of the body read so far
    full_response,  \* the text accumulated from the stream
    ret,        \* the value stream_v0_response returned
    shown,      \* the messages stream_v0_response printed
    spc,        \* its position: "start", "streaming", "returned"
    db,         \* Cache: the rows of table cache, in insertion order
    ops,        \* the calls made on the cache so far
    got,        \* what the last get returned
    events,     \* repl(): what input() gave so far (lines, interrupts, EOF)
    rout,       \* what repl() printed
    calls,      \* the argument lists execute_anvil_command was called with
    rpc,        \* its position: "start", "loop", "ended", "raised"
    registered, \* anvil.cli.app: the names of its commands and groups
    discovered, \* whether discover_and_register_plugins() has been called
    runs,       \* the invocations of the app so far, with their exit codes
    brun,       \* build create: what the run found (SDK, key, claude, --dir)
    bpc,        \* its position: "start", "session", "done", "exit1", "cancelled"
    bsession,   \* the number of calls of query(), i.e. Claude sessions started
    bmsgs,      \* the messages the session has yielded so far
    bret,       \* what stream_claude_response returned
    bout,       \* what build create printed
    environ,    \* os.environ of the process: the two key variables
    envfiles,   \* the .env files: the local one and ~/.anvil/.env
    klog,       \* the key commands run so far in this process, with results
    image,      \* extract_colors: the palette quantize() gave for the image
    colors,     \* what extract_colors returned, or that it exited
    gen,        \* sketch create: what generate() did with the response
    dbase,      \* sketch doctor: the path handed to read_codebase
    dtree,      \* the regular files below it, by path relative to it
    codebase,   \* the mapping read_codebase returned
    dpc         \* position of doctor(): "start", "analyse", "exit1"

sketchVars == <<doc, unclosed, content, matches, files, idx, fs, dirs, out, pc>>

streamVars ==
    <<stream, requests, status, fault, received, full_response, ret, shown, spc>>

cacheVars == <<db, ops, got>>

replVars == <<events, rout, calls, rpc>>

cliVars == <<registered, discovered, runs>>

buildVars == <<brun, bpc, bsession, bmsgs, bret, bout>>

configVars == <<environ, envfiles, klog>>

paletteVars == <<image, colors>>

genVars == <<gen>>

doctorVars == <<dbase, dtree, codebase, dpc>>

toolVars == <<buildVars, configVars, paletteVars, genVars, doctorVars>>

vars == <<sketchVars, streamVars, cacheVars, replVars, cliVars, toolVars>>

\* the variables of the other components, which an action of one leaves alone
besidesSketch == <<streamVars, cacheVars, replVars, cliVars, toolVars>>
besidesStream == <<sketchVars, cacheVars, replVars, cliVars, toolVars>>
besidesCache  == <<sketchVars, streamVars, replVars, cliVars, toolVars>>
besidesRepl   == <<sketchVars, streamVars, cacheVars, cliVars, toolVars>>
besidesCli    == <<sketchVars, streamVars, cacheVars, replVars, toolVars>>

firstVars == <<sketchVars, streamVars, cacheVars, replVars, cliVars>>

besidesBuild   == <<firstVars, configVars, paletteVars, genVars, doctorVars>>
besidesConfig  == <<firstVars, buildVars, paletteVars, genVars, doctorVars>>
besidesPalette == <<firstVars, buildVars, configVars, genVars, doctorVars>>
besidesDoctor  == <<firstVars, buildVars, configVars, paletteVars, genVars>>
\* generate() runs stream_v0_response: the stream is part of it
besidesGenerate ==
    <<sketchVars, cacheVars, replVars, cliVars,
      buildVars, configVars, paletteVars, doctorVars>>

----------------------------------------------------------------------------
(* Characters *)

BT  == "BT"     \* the backtick
DQ  == "DQ"     \* the double quote
NL  == "\n"
SP  == " "
TAB == "\t"
CR  == "\r"
FF  == "\f"
VT  == "VT"     \* vertical tab

\* \w of a Python str pattern restricted to ASCII: [a-zA-Z0-9_]
WordChars ==
    {"a","b","c","d","e","f","g","h","i","j","k","l","m",
     "n","o","p","q","r","s","t","u","v","w","x","y","z",
     "A","B","C","D","E","F","G","H","I","J","K","L","M",
     "N","O","P","Q","R","S","T","U","V","W","X","Y","Z",
     "0","1","2","3","4","5","6","7","8","9","_"}

\* \s of the pattern, and the characters str.strip() removes (ASCII)
SpaceChars == {SP, TAB, NL, CR, FF, VT}

\* the extension alternation tsx?|jsx?|py|css|html|json|md|yml|yaml|toml|sh|txt
Exts ==
    { <<"t","s">>, <<"t","s","x">>, <<"j","s">>, <<"j","s","x">>,
      <<"p","y">>, <<"c","s","s">>, <<"h","t","m","l">>,
      <<"j","s","o","n">>, <<"m","d">>, <<"y","m","l">>,
      <<"y","a","m","l">>, <<"t","o","m","l">>, <<"s","h">>,
      <<"t","x","t">> }

Fence  == <<BT, BT, BT>>
FileEq == <<"f", "i", "l", "e", "=", DQ>>

----------------------------------------------------------------------------
(* The regular expression of parse_code_blocks, as re.findall runs it *)

HasFenceAt(c, i) ==
    /\ i >= 1
    /\ i + 2 <= Len(c)
    /\ c[i] = BT /\ c[i+1] = BT /\ c[i+2] = BT

HasLiteralAt(c, i, lit) ==
    /\ i + Len(lit) - 1 <= Len(c)
    /\ SubSeq(c, i, i + Len(lit) - 1) = lit

\* a greedy run X+ of one character class: the index after the run from i
RECURSIVE RunEnd(_, _, _)
RunEnd(c, i, S) ==
    IF i <= Len(c) /\ c[i] \in S THEN RunEnd(c, i + 1, S) ELSE i

\* the first j >= i with c[j] = ch, or 0
RECURSIVE IndexOf(_, _, _)
IndexOf(c, ch, i) ==
    IF i > Len(c) THEN 0
    ELSE IF c[i] = ch THEN i
    ELSE IndexOf(c, ch, i + 1)

\* (.*?)``` : the first fence at or after i, or 0
RECURSIVE FindFence(_, _)
FindFence(c, i) ==
    IF i + 2 > Len(c) THEN 0
    ELSE IF HasFenceAt(c, i) THEN i
    ELSE FindFence(c, i + 1)

\* the extension test with the alternation written ts|jsx?|... : no tsx
EndsWithExt_NoTsx(s) ==
    \E x \in Exts \ { <<"t","s","x">> } :
        /\ Len(s) >= Len(x) + 2
        /\ SubSeq(s, Len(s) - Len(x), Len(s)) = <<".">> \o x

\* [^\n]+\.(tsx?|jsx?|...) read to the end of the line
EndsWithExt(s) ==
    \E x \in Exts :
        /\ Len(s) >= Len(x) + 2
        /\ SubSeq(s, Len(s) - Len(x), Len(s)) = <<".">> \o x

NoHeader == [ok |-> FALSE]

\* the first alternative with the path written [\w.]+ : no directories
HeaderV0_FlatPath(c, p) ==
    LET w == RunEnd(c, p, WordChars)
        s == RunEnd(c, w, SpaceChars)
        q == RunEnd(c, s + 6, WordChars \cup {"."})
    IN  IF /\ w > p
           /\ s > w
           /\ HasLiteralAt(c, s, FileEq)
           /\ q > s + 6
           /\ q + 1 <= Len(c)
           /\ c[q] = DQ
           /\ c[q + 1] = NL
        THEN [ok |-> TRUE,
              language_v0 |-> SubSeq(c, p, w - 1),
              filename_v0 |-> SubSeq(c, s + 6, q - 1),
              language_colon |-> <<>>, filename_colon |-> <<>>,
              filename_direct |-> <<>>,
              body |-> q + 2]
        ELSE [ok |-> FALSE]

\* first alternative: (\w+)\s+file="([^"]+)" followed by \n
HeaderV0(c, p) ==
    LET w == RunEnd(c, p, WordChars)
        s == RunEnd(c, w, SpaceChars)
        q == IndexOf(c, DQ, s + 6)
    IN  IF /\ w > p
           /\ s > w
           /\ HasLiteralAt(c, s, FileEq)
           /\ q > s + 6
           /\ q + 1 <= Len(c)
           /\ c[q + 1] = NL
        THEN [ok |-> TRUE,
              language_v0 |-> SubSeq(c, p, w - 1),
              filename_v0 |-> SubSeq(c, s + 6, q - 1),
              language_colon |-> <<>>, filename_colon |-> <<>>,
              filename_direct |-> <<>>,
              body |-> q + 2]
        ELSE NoHeader

\* second alternative: (\w+):([^\n]+\.(ext)) followed by \n
HeaderColon(c, p) ==
    LET w == RunEnd(c, p, WordChars)
        e == IndexOf(c, NL, w + 1)
    IN  IF /\ w > p
           /\ w <= Len(c)
           /\ c[w] = ":"
           /\ e > 0
           /\ EndsWithExt(SubSeq(c, w + 1, e - 1))
        THEN [ok |-> TRUE,
              language_v0 |-> <<>>, filename_v0 |-> <<>>,
              language_colon |-> SubSeq(c, p, w - 1),
              filename_colon |-> SubSeq(c, w + 1, e - 1),
              filename_direct |-> <<>>,
              body |-> e + 1]
        ELSE NoHeader

\* third alternative: ([^\n]+\.(ext)) followed by \n
HeaderDirect(c, p) ==
    LET e == IndexOf(c, NL, p)
    IN  IF e > 0 /\ EndsWithExt(SubSeq(c, p, e - 1))
        THEN [ok |-> TRUE,
              language_v0 |-> <<>>, filename_v0 |-> <<>>,
              language_colon |-> <<>>, filename_colon |-> <<>>,
              filename_direct |-> SubSeq(c, p, e - 1),
              body |-> e + 1]
        ELSE NoHeader

\* the body pattern written (.*?)(?:```|$) : the end of the text closes a block
CloseOrEnd(c, h) ==
    IF FindFence(c, h.body) > 0 THEN FindFence(c, h.body) ELSE Len(c) + 1

\* \n(.*?)``` after a header: the body runs to the first fence that follows
CloseOf(c, h) == FindFence(c, h.body)

NoMatch == [ok |-> FALSE]

\* the rest of the pattern after alternative h matched at the fence at i
MatchWith(c, i, h) ==
    IF h.ok /\ CloseOf(c, h) > 0
    THEN [ok |-> TRUE, start |-> i, end |-> CloseOf(c, h) + 3,
          language_v0 |-> h.language_v0, filename_v0 |-> h.filename_v0,
          language_colon |-> h.language_colon,
          filename_colon |-> h.filename_colon,
          filename_direct |-> h.filename_direct,
          code |-> SubSeq(c, h.body, CloseOf(c, h) - 1)]
    ELSE NoMatch

\* the alternation with the direct filename alternative before the colon one
Alternatives_DirectFirst(c, p) ==
    <<HeaderV0(c, p), HeaderDirect(c, p), HeaderColon(c, p)>>

\* the alternation, in the order the pattern lists its alternatives
Alternatives(c, p) == <<HeaderV0(c, p), HeaderColon(c, p), HeaderDirect(c, p)>>

\* one attempt of the pattern at position i: the first alternative that
\* lets the whole pattern match wins
MatchAt(c, i) ==
    IF ~HasFenceAt(c, i) THEN NoMatch
    ELSE LET alts == Alternatives(c, i + 3)
             m1 == MatchWith(c, i, alts[1])
             m2 == MatchWith(c, i, alts[2])
             m3 == MatchWith(c, i, alts[3])
         IN  IF m1.ok THEN m1 ELSE IF m2.ok THEN m2 ELSE m3

\* the leftmost match starting at or after i
RECURSIVE Search(_, _)
Search(c, i) ==
    IF i + 2 > Len(c) THEN NoMatch
    ELSE LET m == MatchAt(c, i)
         IN  IF m.ok THEN m ELSE Search(c, i + 1)

\* re.findall(pattern, content, re.DOTALL): successive non-overlapping matches
RECURSIVE FindAll(_, _)
FindAll(c, pos) ==
    LET m == Search(c, pos)
    IN  IF m.ok THEN <<m>> \o FindAll(c, m.end) ELSE <<>>

----------------------------------------------------------------------------
(* str.strip() *)

RECURSIVE LastNonSpace(_, _)
LastNonSpace(s, j) ==
    IF j >= 1 /\ s[j] \in SpaceChars THEN LastNonSpace(s, j - 1) ELSE j

\* str.lstrip() in place of str.strip()
StripLeft(s) == SubSeq(s, RunEnd(s, 1, SpaceChars), Len(s))

Strip(s) ==
    LET a == RunEnd(s, 1, SpaceChars)
        b == LastNonSpace(s, Len(s))
    IN  IF a > b THEN <<>> ELSE SubSeq(s, a, b)

----------------------------------------------------------------------------
(* The loop of parse_code_blocks over the matches *)

S_index_ts    == <<"i","n","d","e","x",".","t","s">>
S_index_js    == <<"i","n","d","e","x",".","j","s">>
S_main_py     == <<"m","a","i","n",".","p","y">>
S_styles_css  == <<"s","t","y","l","e","s",".","c","s","s">>
S_index_html  == <<"i","n","d","e","x",".","h","t","m","l">>
S_config_json == <<"c","o","n","f","i","g",".","j","s","o","n">>
S_README_md   == <<"R","E","A","D","M","E",".","m","d">>

\* the language -> default filename chain of if/elif; <<>> when none applies
DefaultName(lang) ==
    IF lang \in { <<"t","y","p","e","s","c","r","i","p","t">>,
                  <<"t","s">>, <<"t","s","x">> } THEN S_index_ts
    ELSE IF lang \in { <<"j","a","v","a","s","c","r","i","p","t">>,
                       <<"j","s">>, <<"j","s","x">> } THEN S_index_js
    ELSE IF lang \in { <<"p","y","t","h","o","n">>, <<"p","y">> } THEN S_main_py
    ELSE IF lang = <<"c","s","s">> THEN S_styles_css
    ELSE IF lang = <<"h","t","m","l">> THEN S_index_html
    ELSE IF lang = <<"j","s","o","n">> THEN S_config_json
    ELSE IF lang \in { <<"m","a","r","k","d","o","w","n">>, <<"m","d">> }
         THEN S_README_md
    ELSE <<>>

\* files.setdefault(k, v): the first block with a filename is kept
DictSetDefault(d, k, v) ==
    IF \E i \in 1..Len(d) : d[i].name = k
    THEN d
    ELSE Append(d, [name |-> k, body |-> v])

\* files[k] = v on an insertion-ordered dict
DictSet(d, k, v) ==
    IF \E i \in 1..Len(d) : d[i].name = k
    THEN [i \in 1..Len(d) |->
            IF d[i].name = k THEN [name |-> k, body |-> v] ELSE d[i]]
    ELSE Append(d, [name |-> k, body |-> v])

\* files[k], for a key that is present
DictGet(d, k) == d[CHOOSE i \in 1..Len(d) : d[i].name = k].body

Keys(d) == {d[i].name : i \in 1..Len(d)}

\* the body of `for match in matches`
ClassifyMatch(d, m) ==
    IF m.language_v0 # <<>> /\ m.filename_v0 # <<>>
    THEN DictSet(d, m.filename_v0, Strip(m.code))
    ELSE IF m.language_colon # <<>> /\ m.filename_colon # <<>>
    THEN DictSet(d, m.filename_colon, Strip(m.code))
    ELSE IF m.filename_direct # <<>>
    THEN DictSet(d, m.filename_direct, Strip(m.code))
    ELSE IF m.language_v0 # <<>> /\ Strip(m.code) # <<>>
    THEN IF DefaultName(m.language_v0) # <<>>
         THEN DictSet(d, DefaultName(m.language_v0), Strip(m.code))
         ELSE d
    ELSE IF m.language_colon # <<>> /\ Strip(m.code) # <<>>
    THEN IF DefaultName(m.language_colon) # <<>>
         THEN DictSet(d, DefaultName(m.language_colon), Strip(m.code))
         ELSE d
    ELSE d

RECURSIVE ClassifyAll(_, _, _)
ClassifyAll(d, ms, k) ==
    IF k > Len(ms) THEN d
    ELSE ClassifyAll(ClassifyMatch(d, ms[k]), ms, k + 1)

parse_code_blocks(c) == ClassifyAll(<<>>, FindAll(c, 1), 1)

----------------------------------------------------------------------------
(* Paths: base_path / filename, and where open() lands *)

\* the text between the "/" separators of s, from position i on
RECURSIVE SplitFrom(_, _, _)
SplitFrom(s, i, cur) ==
    IF i > Len(s) THEN <<cur>>
    ELSE IF s[i] = "/" THEN <<cur>> \o SplitFrom(s, i + 1, <<>>)
    ELSE SplitFrom(s, i + 1, Append(cur, s[i]))

IsPart(x) == x # <<>> /\ x # <<".">>

\* the parts pathlib keeps of a path string: empty and "." parts are dropped
Parts(s) == SelectSeq(SplitFrom(s, 1, <<>>), IsPart)

IsAbsolute(s) == Len(s) >= 1 /\ s[1] = "/"

\* Path.cwd(), the default base_path, as its parts below the root
BasePath == << <<"c", "w", "d">> >>

\* file_path = base_path / filename: an absolute right operand replaces base
JoinPath(base, filename) ==
    IF IsAbsolute(filename) THEN Parts(filename) ELSE base \o Parts(filename)

\* the file the operating system opens for a path: ".." steps to the parent
RECURSIVE ResolveFrom(_, _, _)
ResolveFrom(parts, i, acc) ==
    IF i > Len(parts) THEN acc
    ELSE IF parts[i] = <<".", ".">>
         THEN ResolveFrom(parts, i + 1,
                  IF acc = <<>> THEN acc ELSE SubSeq(acc, 1, Len(acc) - 1))
         ELSE ResolveFrom(parts, i + 1, Append(acc, parts[i]))

Resolve(parts) == ResolveFrom(parts, 1, <<>>)

\* the file opened for entry `filename` of the mapping
FilePath(filename) == Resolve(JoinPath(BasePath, filename))

\* file_path.parent, as the directory the operating system resolves it to
ParentDir(filename) ==
    LET p == JoinPath(BasePath, filename)
    IN  IF p = <<>> THEN p ELSE Resolve(SubSeq(p, 1, Len(p) - 1))

\* the directories that exist before create_files runs: /, /etc and Path.cwd()
ExistingDirs == {<<>>, << <<"e", "t", "c">> >>, BasePath}

\* the files that exist before create_files runs: main.py and notes.txt in
\* the working directory
B_old  == <<"o", "l", "d">>
B_keep == <<"k", "e", "e", "p">>

PreExisting ==
    { [path |-> BasePath \o << <<"m", "a", "i", "n", ".", "p", "y">> >>,
       body |-> B_old],
      [path |-> BasePath \o << <<"n", "o", "t", "e", "s", ".", "t", "x", "t">> >>,
       body |-> B_keep] }

\* the directory d and the directories above it
Ancestors(d) == {SubSeq(d, 1, n) : n \in 0..Len(d)}

\* the file is written only when no file exists at the path
WriteFile_KeepExisting(f, p, body) ==
    IF \E x \in f : x.path = p THEN f
    ELSE f \cup {[path |-> p, body |-> body]}

\* file_path.parent.mkdir(parents=True, exist_ok=True)
MakeDirs(ds, d) == ds \cup Ancestors(d)

\* open(file_path, 'w') followed by f.write(body): the file is replaced
WriteFile(f, p, body) ==
    {x \in f : x.path # p} \cup {[path |-> p, body |-> body]}

----------------------------------------------------------------------------
(* The responses: fenced blocks and prose, as v0 lays them out *)

MaxBlocks == 2

Block(h, b) == [kind |-> "block", header |-> h, body |-> b]
Prose(b)    == [kind |-> "text", header |-> <<>>, body |-> b]

H_v0       == <<"t", "s", "x", SP, "f", "i", "l", "e", "=", DQ, "a", "p", "p", "/", "p", "a", "g", "e", ".", "t", "s", "x", DQ>>
H_colon    == <<"p", "y", ":", "m", "a", "i", "n", ".", "p", "y">>
H_colonMjs == <<"j", "s", ":", "l", "i", "b", ".", "m", "j", "s">>
H_colonTSX == <<"t", "s", "x", ":", "A", "p", "p", ".", "T", "S", "X">>
H_colonDot == <<"p", "y", ":", ".", "p", "y">>
H_direct   == <<"c", "o", "m", "p", "o", "n", "e", "n", "t", "s", "/", "s", "q", "u", "a", "r", "e", ".", "t", "s", "x">>
H_main     == <<"m", "a", "i", "n", ".", "p", "y">>
H_ts       == <<"t", "y", "p", "e", "s", "c", "r", "i", "p", "t">>
H_bash     == <<"b", "a", "s", "h">>
H_dotdot   == <<"p", "y", ":", ".", ".", "/", "x", ".", "p", "y">>
H_abs      == <<"s", "h", ":", "/", "e", "t", "c", "/", "x", ".", "s", "h">>
H_dotMain  == <<".", "/", "m", "a", "i", "n", ".", "p", "y">>

B_home  == <<"e", "x", "p", "o", "r", "t", SP, "d", "e", "f", "a", "u", "l", "t", SP, "f", "u", "n", "c", "t", "i", "o", "n", SP, "H", "o", "m", "e", "(", ")", "{", "}">>
B_ws    == <<SP, "a", NL, NL, SP, "b", SP>>
B_print == <<"p", "r", "i", "n", "t", "(", "1", ")">>
B_dots  == <<".", ".", ".">>
B_pass  == <<"p", "a", "s", "s">>
B_letA  == <<"l", "e", "t", SP, "a">>
B_letB  == <<"l", "e", "t", SP, "b">>
B_ls    == <<"l", "s">>
B_x     == <<"x">>
B_prose == <<"H", "e", "r", "e", SP, "i", "s", SP, "t", "h", "e", SP, "c", "o", "d", "e", ":">>

Items ==
    { Block(H_v0, B_home), Block(H_v0, B_ws),
      Block(H_colon, B_print), Block(H_colonMjs, B_x),
      Block(H_colonTSX, B_x), Block(H_colonDot, B_print),
      Block(H_direct, B_dots), Block(H_main, B_pass),
      Block(H_ts, B_letA), Block(H_ts, B_letB), Block(H_bash, B_ls),
      Block(H_dotdot, B_x), Block(H_abs, B_x), Block(H_dotMain, B_x),
      Prose(B_prose) }

\* one item as text; a block is closed by a fence line unless it is the
\* unclosed one
Render(item, closed) ==
    IF item.kind = "text" THEN item.body \o <<NL>>
    ELSE Fence \o item.header \o <<NL>> \o item.body \o <<NL>>
         \o (IF closed THEN Fence \o <<NL>> ELSE <<>>)

RECURSIVE RenderFrom(_, _, _)
RenderFrom(d, u, k) ==
    IF k > Len(d) THEN <<>>
    ELSE Render(d[k], k # u) \o RenderFrom(d, u, k + 1)

RenderDoc(d, u) == RenderFrom(d, u, 1)

\* where item k starts in the rendered text
Offset(d, u, k) == Len(RenderDoc(SubSeq(d, 1, k - 1), u)) + 1

Docs == UNION {[1..n -> Items] : n \in 0..MaxBlocks}

----------------------------------------------------------------------------
(* The components at rest: each specification runs one of them *)

StreamIdle ==
    /\ stream = <<>>
    /\ requests = 0
    /\ status = 0
    /\ fault = "none"
    /\ received = 0
    /\ full_response = <<>>
    /\ ret = <<>>
    /\ shown = <<>>
    /\ spc = "start"

\* None, and a value v, as Optional[str]
None    == [some |-> FALSE, value |-> <<>>]
Some(v) == [some |-> TRUE, value |-> v]

CacheIdle ==
    /\ db = <<>>
    /\ ops = <<>>
    /\ got = None

ReplIdle ==
    /\ events = <<>>
    /\ rout = <<>>
    /\ calls = <<>>
    /\ rpc = "start"

\* app as cli.py leaves it when imported: the sketch group of line 30 and
\* the commands version, palette and upgrade
ImportedApp == {"sketch", "version", "palette", "upgrade"}

CliIdle ==
    /\ registered = ImportedApp
    /\ discovered = FALSE
    /\ runs = <<>>

SketchIdle ==
    /\ doc = <<>>
    /\ unclosed = 0
    /\ content = <<>>
    /\ matches = <<>>
    /\ files = <<>>
    /\ idx = 1
    /\ fs = PreExisting
    /\ dirs = ExistingDirs
    /\ out = <<>>
    /\ pc = "response"

FirstIdle == SketchIdle /\ StreamIdle /\ CacheIdle /\ ReplIdle /\ CliIdle

\* the two tools that keep an API key
Tools == {"sketch", "build"}

\* the .env files get_api_key may load: the one find_dotenv() meets above
\* the package directory, Path.cwd()/.env and ~/.anvil/.env
EnvFiles == {"found", "local", "global"}

BuildIdle ==
    /\ brun = <<>>
    /\ bpc = "start"
    /\ bsession = 0
    /\ bmsgs = <<>>
    /\ bret = <<>>
    /\ bout = <<>>

ConfigIdle ==
    /\ environ = [t \in Tools |-> None]
    /\ envfiles = [f \in EnvFiles |-> None]
    /\ klog = <<>>

PaletteIdle ==
    /\ image = <<>>
    /\ colors = [done |-> FALSE, exit |-> 0, list |-> <<>>]

GenerateIdle ==
    gen = [outcome |-> "none", no_files |-> FALSE, text |-> <<>>]

DoctorIdle ==
    /\ dbase = <<>>
    /\ dtree = {}
    /\ codebase = {}
    /\ dpc = "start"

ToolsIdle ==
    BuildIdle /\ ConfigIdle /\ PaletteIdle /\ GenerateIdle /\ DoctorIdle

----------------------------------------------------------------------------
(* generate(): parse the response, then create the files *)

Say(kind, name) == [kind |-> kind, name |-> name]

Init ==
    /\ doc \in Docs
    /\ unclosed \in 0..Len(doc)
    /\ unclosed > 0 => doc[unclosed].kind = "block"
    /\ content = RenderDoc(doc, unclosed)
    /\ matches = <<>>
    /\ files = <<>>
    /\ idx = 1
    /\ fs = PreExisting
    /\ dirs = ExistingDirs
    /\ out = <<>>
    /\ pc = "response"
    /\ StreamIdle
    /\ CacheIdle
    /\ ReplIdle
    /\ CliIdle
    /\ ToolsIdle

\* `if response:` ... files = parse_code_blocks(response)
ParseResponse ==
    /\ pc = "response"
    /\ content # <<>>
    /\ matches' = FindAll(content, 1)
    /\ files' = parse_code_blocks(content)
    /\ pc' = "create"
    /\ UNCHANGED <<doc, unclosed, content, idx, fs, dirs, out, besidesSketch>>

\* `else:` No response received from v0 API
NoResponse ==
    /\ pc = "response"
    /\ content = <<>>
    /\ out' = Append(out, Say("no_response", <<>>))
    /\ pc' = "done"
    /\ UNCHANGED <<doc, unclosed, content, matches, files, idx, fs, dirs, besidesSketch>>

\* an empty mapping treated as a failure: error message, exit status 1
CreateNoFiles_Fatal ==
    /\ pc = "create"
    /\ files = <<>>
    /\ out' = Append(out, Say("error", <<>>))
    /\ pc' = "exit1"
    /\ UNCHANGED <<doc, unclosed, content, matches, files, idx, fs, dirs, besidesSketch>>

\* create_files: `if not files:` warn and return
CreateNoFiles ==
    /\ pc = "create"
    /\ files = <<>>
    /\ out' = Append(out, Say("no_files", <<>>))
    /\ pc' = "done"
    /\ UNCHANGED <<doc, unclosed, content, matches, files, idx, fs, dirs, besidesSketch>>

AfterEntry == IF idx = Len(files) THEN "done" ELSE "create"

\* create_files, one entry: mkdir and open/write succeed
CreateEntryOk ==
    /\ pc = "create"
    /\ idx <= Len(files)
    /\ dirs' = MakeDirs(dirs, ParentDir(files[idx].name))
    /\ fs' = WriteFile(fs, FilePath(files[idx].name), files[idx].body)
    /\ out' = Append(out, Say("created", files[idx].name))
    /\ idx' = idx + 1
    /\ pc' = AfterEntry
    /\ UNCHANGED <<doc, unclosed, content, matches, files, besidesSketch>>

\* create_files, one entry: open() or f.write() raises inside the try; when
\* the file was already opened for writing it is left truncated
CreateEntryWriteFails ==
    /\ pc = "create"
    /\ idx <= Len(files)
    /\ dirs' = MakeDirs(dirs, ParentDir(files[idx].name))
    /\ \E opened \in BOOLEAN :
          fs' = IF opened
                THEN WriteFile(fs, FilePath(files[idx].name), <<>>)
                ELSE fs
    /\ out' = Append(out, Say("failed", files[idx].name))
    /\ idx' = idx + 1
    /\ pc' = AfterEntry
    /\ UNCHANGED <<doc, unclosed, content, matches, files, besidesSketch>>

\* create_files, one entry: file_path.parent.mkdir raises (exist_ok=True: not
\* for a directory that exists); the exception leaves create_files, and
\* generate() prints it and exits with status 1
CreateEntryMkdirFails ==
    /\ pc = "create"
    /\ idx <= Len(files)
    /\ ParentDir(files[idx].name) \notin dirs
    /\ out' = Append(out, Say("error", files[idx].name))
    /\ pc' = "exit1"
    /\ UNCHANGED <<doc, unclosed, content, matches, files, idx, fs, dirs, besidesSketch>>

Next ==
    \/ ParseResponse
    \/ NoResponse
    \/ CreateNoFiles
    \/ CreateEntryOk
    \/ CreateEntryWriteFails
    \/ CreateEntryMkdirFails

Spec == Init /\ [][Next]_vars

----------------------------------------------------------------------------
(* Vocabulary of the properties: blocks of the response, fence-line forms *)

\* parse_code_blocks has returned
Parsed == pc # "response"

IsBlock(k) == doc[k].kind = "block"

\* block k has its own closing fence line
Closed(k) == IsBlock(k) /\ unclosed # k

\* every block before k is closed, so the fences pair up to block k
Paired(k) == unclosed = 0 \/ unclosed >= k

IsWordSeq(s) == s # <<>> /\ \A i \in 1..Len(s) : s[i] \in WordChars

\* a fence line  <language> file="<path>"
AttributedAt(h, a) ==
    /\ IsWordSeq(SubSeq(h, 1, a))
    /\ a + 8 <= Len(h) - 1
    /\ h[a + 1] = SP
    /\ SubSeq(h, a + 2, a + 7) = FileEq
    /\ h[Len(h)] = DQ
    /\ \A i \in (a + 8)..(Len(h) - 1) : h[i] \notin {DQ, NL}

IsAttributed(h) == \E a \in 1..Len(h) : AttributedAt(h, a)

AttributedPath(h) ==
    SubSeq(h, (CHOOSE a \in 1..Len(h) : AttributedAt(h, a)) + 8, Len(h) - 1)

\* a fence line  <language>:<path>
ColonAt(h, a) ==
    /\ IsWordSeq(SubSeq(h, 1, a))
    /\ a + 1 <= Len(h)
    /\ h[a + 1] = ":"

IsColonForm(h) == \E a \in 1..Len(h) : ColonAt(h, a)

ColonPath(h) ==
    SubSeq(h, (CHOOSE a \in 1..Len(h) : ColonAt(h, a)) + 2, Len(h))

\* the path has a recognized extension: a non-empty stem, a dot and one of
\* ts, tsx, js, jsx, py, css, html, json, md, yml, yaml, toml, sh, txt
HasExtension(p) ==
    \E n \in 1..Len(p) :
        /\ n >= 2
        /\ p[n] = "."
        /\ SubSeq(p, n + 1, Len(p)) \in Exts

\* a fence line that is a bare path: no language token, no colon
IsBarePath(h) ==
    /\ h # <<>>
    /\ \A i \in 1..Len(h) : h[i] \notin {":", SP, TAB, NL, DQ, BT}
    /\ HasExtension(h)

\* the filename a fence line stands for under the four conventions;
\* <<>> when it stands for none
NameOf(h) ==
    IF IsAttributed(h) THEN AttributedPath(h)
    ELSE IF IsColonForm(h)
         THEN (IF HasExtension(ColonPath(h)) THEN ColonPath(h) ELSE <<>>)
    ELSE IF IsBarePath(h) THEN h
    ELSE DefaultName(h)

NoLaterSameName(k, name) ==
    \A j \in (k + 1)..Len(doc) : IsBlock(j) => NameOf(doc[j].header) # name

\* the text of block k between its fence line and its closing fence
RawBody(k) == doc[k].body \o <<NL>>

\* t is raw without its leading and trailing whitespace, nothing else changed
IsTrimOf(t, raw) ==
    \E a \in 0..Len(raw), b \in 0..Len(raw) :
        /\ a + b <= Len(raw)
        /\ \A i \in 1..a : raw[i] \in SpaceChars
        /\ \A i \in (Len(raw) - b + 1)..Len(raw) : raw[i] \in SpaceChars
        /\ t = SubSeq(raw, a + 1, Len(raw) - b)
        /\ t # <<>> => (t[1] \notin SpaceChars /\ t[Len(t)] \notin SpaceChars)

\* the mapping holds the trimmed body of block k under `name`
HoldsBlock(name, k) ==
    /\ name \in Keys(files)
    /\ IsTrimOf(DictGet(files, name), RawBody(k))

\* no match of the pattern lies in the text of block k
NoEntryFrom(k) ==
    \A i \in 1..Len(matches) :
        \/ matches[i].end <= Offset(doc, unclosed, k)
        \/ matches[i].start >= Offset(doc, unclosed, k + 1)

S_app_page == <<"a", "p", "p", "/", "p", "a", "g", "e", ".", "t", "s", "x">>

----------------------------------------------------------------------------
(* C1 .. C10 *)

C2_ColonForm ==
    Parsed =>
        \A k \in 1..Len(doc) :
            (Closed(k) /\ Paired(k) /\ IsColonForm(doc[k].header)) =>
                IF HasExtension(ColonPath(doc[k].header))
                THEN NoLaterSameName(k, ColonPath(doc[k].header))
                     => HoldsBlock(ColonPath(doc[k].header), k)
                ELSE NoEntryFrom(k)

\* the part of C2 the code keeps: paths with a stem before the extension
\* are stored, paths that do not end in a dot and an extension are dropped
C2_ColonFormWithStem ==
    Parsed =>
        \A k \in 1..Len(doc) :
            (Closed(k) /\ Paired(k) /\ IsColonForm(doc[k].header)) =>
                IF HasExtension(ColonPath(doc[k].header))
                THEN NoLaterSameName(k, ColonPath(doc[k].header))
                     => HoldsBlock(ColonPath(doc[k].header), k)
                ELSE EndsWithExt(<<"x">> \o ColonPath(doc[k].header))
                     \/ NoEntryFrom(k)

C4_LanguageOnly ==
    Parsed =>
        \A k \in 1..Len(doc) :
            ( /\ Closed(k) /\ Paired(k)
              /\ IsWordSeq(doc[k].header)
              /\ DefaultName(doc[k].header) # <<>>
              /\ Strip(RawBody(k)) # <<>>
              /\ NoLaterSameName(k, DefaultName(doc[k].header)) )
            => HoldsBlock(DefaultName(doc[k].header), k)

\* C5 as claimed: a block without its own closing fence is not in the
\* result, whatever follows it.
C5_UnterminatedExcluded ==
    Parsed =>
        \A k \in 1..Len(doc) :
            unclosed = k =>
                \A i \in 1..Len(matches) :
                    matches[i].start # Offset(doc, unclosed, k)

\* C5 amended: a block whose opening fence is followed by no further
\* triple backtick in the text is not in the result.
C5_NoFenceFollows ==
    Parsed =>
        \A k \in 1..Len(doc) :
            ( /\ IsBlock(k)
              /\ \A j \in (Offset(doc, unclosed, k) + 3)..Len(content) :
                    ~HasFenceAt(content, j) )
            => \A i \in 1..Len(matches) :
                    matches[i].end <= Offset(doc, unclosed, k)

\* a closed block followed by an attributed block left open at the end of
\* the text: only the first is in the result
C5_Witness ==
    /\ pc = "done"
    /\ Len(doc) = 2 /\ unclosed = 2
    /\ doc[1] = Block(H_colon, B_print)
    /\ doc[2] = Block(H_v0, B_home)
    /\ files = <<[name |-> H_main, body |-> B_print]>>

\* the filename under which the loop stores match m; <<>> when it stores none
KeyOf(m) ==
    IF m.filename_v0 # <<>> THEN m.filename_v0
    ELSE IF m.filename_colon # <<>> THEN m.filename_colon
    ELSE m.filename_direct

LastWith(name) ==
    CHOOSE i \in 1..Len(matches) :
        /\ KeyOf(matches[i]) = name
        /\ \A j \in (i + 1)..Len(matches) : KeyOf(matches[j]) # name

\* C6: the result has exactly one entry per filename of the classified
\* blocks, holding the trimmed body of the last block with that filename.
C6_LastBlockWins ==
    Parsed =>
        /\ Keys(files) = {KeyOf(matches[i]) : i \in 1..Len(matches)} \ {<<>>}
        /\ \A i, j \in 1..Len(files) : files[i].name = files[j].name => i = j
        /\ \A i \in 1..Len(files) :
              IsTrimOf(files[i].body, matches[LastWith(files[i].name)].code)

\* py:main.py and then main.py: one entry main.py with the second body
C6_Witness ==
    /\ pc = "done"
    /\ Len(doc) = 2 /\ unclosed = 0
    /\ doc[1] = Block(H_colon, B_print)
    /\ doc[2] = Block(H_main, B_pass)
    /\ files = <<[name |-> H_main, body |-> B_pass]>>

Handled(i) ==
    \E j \in 1..Len(out) :
        /\ out[j].kind \in {"created", "failed", "error"}
        /\ out[j].name = files[i].name

\* C7: when create_files has ended, every entry of the mapping was
\* attempted, whatever failed for the entries before it.
C7_AllEntriesAttempted ==
    pc \in {"done", "exit1"} => \A i \in 1..Len(files) : Handled(i)

InsideBase(p) ==
    /\ Len(p) > Len(BasePath)
    /\ SubSeq(p, 1, Len(BasePath)) = BasePath

\* C8: every file create_files writes lies inside the base directory.
C8_WritesInsideBase == \A f \in fs : InsideBase(f.path)

\* the fence line of match i, as it stands in the text
OpeningLine(i) ==
    SubSeq(content, matches[i].start + 3,
           IndexOf(content, NL, matches[i].start + 3) - 1)

\* C9: a fence line that fits several conventions is classified by the
\* first that fits, in the order attributed, colon, direct filename: a
\* line <language>:<path> is stored under <path>, never under the line.
C9_Precedence ==
    Parsed =>
        \A i \in 1..Len(matches) :
            /\ ( /\ IsAttributed(OpeningLine(i))
                 /\ \/ IsColonForm(OpeningLine(i))
                    \/ HasExtension(OpeningLine(i)) )
               => KeyOf(matches[i]) = AttributedPath(OpeningLine(i))
            /\ ( /\ IsColonForm(OpeningLine(i))
                 /\ HasExtension(ColonPath(OpeningLine(i)))
                 /\ HasExtension(OpeningLine(i)) )
               => /\ KeyOf(matches[i]) = ColonPath(OpeningLine(i))
                  /\ KeyOf(matches[i]) # OpeningLine(i)
                  /\ OpeningLine(i) \notin Keys(files)

\* py:main.py parsed: stored as main.py
C9_Witness ==
    /\ pc = "done"
    /\ Len(matches) = 1
    /\ OpeningLine(1) = H_colon
    /\ files = <<[name |-> H_main, body |-> B_print]>>

\* the text between the end of the fence line of match i and its closing fence
TextBetween(i) ==
    SubSeq(content, IndexOf(content, NL, matches[i].start + 3) + 1,
           matches[i].end - 4)

\* C10: the stored body is the text between the fence line and the closing
\* fence without its leading and trailing whitespace; inner whitespace and
\* newlines are kept.
C10_BodyTrimmed ==
    Parsed =>
        \A i \in 1..Len(files) :
            IsTrimOf(files[i].body, TextBetween(LastWith(files[i].name)))

\* a body with leading, trailing and inner whitespace, stored trimmed
C10_Witness ==
    /\ pc = "done"
    /\ Len(doc) = 1 /\ unclosed = 0
    /\ doc[1] = Block(H_v0, B_ws)
    /\ files = <<[name |-> S_app_page, body |-> <<"a", NL, NL, SP, "b">>]>>

----------------------------------------------------------------------------
(* C11 .. C13: what the extractor omits, and what the writer does *)

\* the fence line fits none of the four conventions
Unrecognized(h) == NameOf(h) = <<>>

\* the fence line neither is a language of the default filename table nor
\* ends in a dot and a recognized extension
UnknownEnding(h) ==
    /\ DefaultName(h) = <<>>
    /\ ~IsAttributed(h)
    /\ \A x \in Exts :
          \/ Len(h) < Len(x) + 1
          \/ SubSeq(h, Len(h) - Len(x), Len(h)) # <<".">> \o x

HasFence(c) == \E i \in 1..Len(c) : HasFenceAt(c, i)

\* C11: parse_code_blocks reports no error; a closed block (the fences
\* before it pair up) whose fence line fits none of the recognized
\* conventions contributes no entry, and a text without fenced blocks
\* yields the empty mapping.
C11_UnmatchedOmitted ==
    Parsed =>
        /\ (pc = "create" /\ idx = 1) => out = <<>>
        /\ \A k \in 1..Len(doc) :
              (Closed(k) /\ Paired(k) /\ Unrecognized(doc[k].header))
              => NoEntryFrom(k)
        /\ ~HasFence(content) => files = <<>>

\* the part of C11 the code keeps: fence lines such as bash, js:lib.mjs and
\* tsx:App.TSX, which end in no recognized extension, contribute no entry
C11_UnknownEndingOmitted ==
    Parsed =>
        /\ \A k \in 1..Len(doc) :
              (Closed(k) /\ Paired(k) /\ UnknownEnding(doc[k].header))
              => NoEntryFrom(k)
        /\ ~HasFence(content) => files = <<>>

\* create_files has returned and reported every entry as created
AllCreated ==
    /\ pc = "done"
    /\ files # <<>>
    /\ Len(out) = Len(files)
    /\ \A j \in 1..Len(out) : out[j].kind = "created"

EntryFile(i) == [path |-> FilePath(files[i].name), body |-> files[i].body]

EntryPaths == {FilePath(files[i].name) : i \in 1..Len(files)}

\* nothing but the entries' files and their parent directories was touched
OnlyEntriesTouched ==
    /\ \A f \in fs : f.path \in EntryPaths \/ f \in PreExisting
    /\ \A f \in PreExisting : f.path \notin EntryPaths => f \in fs
    /\ \A f, g \in fs : f.path = g.path => f = g
    /\ dirs = ExistingDirs \cup
              UNION {Ancestors(ParentDir(files[i].name)) : i \in 1..Len(files)}

\* C12 as claimed: when nothing failed, every entry of the mapping is a file
\* at base/filename holding exactly its body, missing parent directories
\* were made, an existing file was replaced, and nothing else was touched.
C12_EveryEntryWritten ==
    AllCreated =>
        /\ \A i \in 1..Len(files) : EntryFile(i) \in fs
        /\ OnlyEntriesTouched

\* C12 amended: the same for every entry whose file is not also the file of
\* a later entry (main.py and ./main.py name one file: the later body stays).
C12_LastEntryPerPathWritten ==
    AllCreated =>
        /\ \A i \in 1..Len(files) :
              (\A j \in (i + 1)..Len(files) :
                    FilePath(files[j].name) # FilePath(files[i].name))
              => EntryFile(i) \in fs
        /\ OnlyEntriesTouched

\* app/page.tsx written below a directory that did not exist, main.py
\* written over the existing main.py, notes.txt left as it was
C12_Witness ==
    /\ AllCreated
    /\ files = << [name |-> S_app_page, body |-> B_home],
                  [name |-> H_main, body |-> B_pass] >>
    /\ [path |-> BasePath \o << <<"a", "p", "p">>, <<"p", "a", "g", "e", ".", "t", "s", "x">> >>,
        body |-> B_home] \in fs
    /\ [path |-> BasePath \o <<H_main>>, body |-> B_pass] \in fs
    /\ BasePath \o << <<"a", "p", "p">> >> \in dirs
    /\ BasePath \o << <<"a", "p", "p">> >> \notin ExistingDirs
    /\ Cardinality(fs) = 3

\* C13: when a non-empty response holds no block, create_files reports that
\* there are no files to create and returns: nothing is written, nothing
\* is raised, and `sketch create` ends without the error exit.
C13_NoFilesIsNotAnError ==
    (content # <<>> /\ Parsed /\ files = <<>>) =>
        /\ pc \in {"create", "done"}
        /\ fs = PreExisting
        /\ dirs = ExistingDirs
        /\ pc = "create" => out = <<>>
        /\ pc = "done" => out = <<Say("no_files", <<>>)>>

\* a response that is prose and a bash block: no files, normal end
C13_Witness ==
    /\ pc = "done"
    /\ doc = <<Prose(B_prose), Block(H_bash, B_ls)>>
    /\ unclosed = 0
    /\ files = <<>>
    /\ out = <<Say("no_files", <<>>)>>
    /\ fs = PreExisting

----------------------------------------------------------------------------
(* stream_v0_response: one POST, then the server-sent lines of the body *)

MaxLines == 3

OkStatus == 200

DataPrefix == <<"d", "a", "t", "a", ":", SP>>
DoneText   == <<"[", "D", "O", "N", "E", "]">>

K_choices == <<"c", "h", "o", "i", "c", "e", "s">>
K_delta   == <<"d", "e", "l", "t", "a">>
K_content == <<"c", "o", "n", "t", "e", "n", "t">>

\* str.startswith
StartsWith(s, pre) == Len(s) >= Len(pre) /\ SubSeq(s, 1, Len(pre)) = pre

\* the values json.loads builds
JNull   == [t |-> "null"]
JNum(d) == [t |-> "number", d |-> d]
JStr(x) == [t |-> "string", s |-> x]
JArr(e) == [t |-> "array", e |-> e]
JObj(f) == [t |-> "object", f |-> f]   \* f: the members <<key, value>>, in order

JsonSpace == {SP, TAB, NL, CR}
Digits    == {"0", "1", "2", "3", "4", "5", "6", "7", "8", "9"}

JFail     == [ok |-> FALSE]
JOk(v, n) == [ok |-> TRUE, value |-> v, next |-> n]

\* a string without escapes, from its opening quote at i
ParseString(s, i) ==
    LET e == IndexOf(s, DQ, i + 1)
    IN  IF e = 0 THEN JFail ELSE JOk(JStr(SubSeq(s, i + 1, e - 1)), e + 1)

\* json.loads on objects, arrays, strings without escapes, unsigned
\* integers and null
RECURSIVE ParseValue(_, _), ParseElements(_, _, _), ParseMembers(_, _, _)

ParseValue(s, i0) ==
    LET i == RunEnd(s, i0, JsonSpace)
    IN  IF i > Len(s) THEN JFail
        ELSE IF s[i] = DQ THEN ParseString(s, i)
        ELSE IF s[i] = "["
             THEN LET j == RunEnd(s, i + 1, JsonSpace)
                  IN  IF j <= Len(s) /\ s[j] = "]"
                      THEN JOk(JArr(<<>>), j + 1)
                      ELSE ParseElements(s, j, <<>>)
        ELSE IF s[i] = "{"
             THEN LET j == RunEnd(s, i + 1, JsonSpace)
                  IN  IF j <= Len(s) /\ s[j] = "}"
                      THEN JOk(JObj(<<>>), j + 1)
                      ELSE ParseMembers(s, j, <<>>)
        ELSE IF s[i] \in Digits
             THEN JOk(JNum(SubSeq(s, i, RunEnd(s, i, Digits) - 1)),
                      RunEnd(s, i, Digits))
        ELSE IF HasLiteralAt(s, i, <<"n", "u", "l", "l">>)
             THEN JOk(JNull, i + 4)
        ELSE JFail

ParseElements(s, i, acc) ==
    LET r == ParseValue(s, i)
    IN  IF ~r.ok THEN JFail
        ELSE LET j == RunEnd(s, r.next, JsonSpace)
             IN  IF j > Len(s) THEN JFail
                 ELSE IF s[j] = ","
                      THEN ParseElements(s, j + 1, Append(acc, r.value))
                 ELSE IF s[j] = "]"
                      THEN JOk(JArr(Append(acc, r.value)), j + 1)
                 ELSE JFail

ParseMembers(s, i, acc) ==
    LET k0 == RunEnd(s, i, JsonSpace)
    IN  IF k0 > Len(s) \/ s[k0] # DQ THEN JFail
        ELSE LET k == ParseString(s, k0)
             IN  IF ~k.ok THEN JFail
                 ELSE LET c == RunEnd(s, k.next, JsonSpace)
                      IN  IF c > Len(s) \/ s[c] # ":" THEN JFail
                          ELSE LET v == ParseValue(s, c + 1)
                               IN  IF ~v.ok THEN JFail
                                   ELSE LET j == RunEnd(s, v.next, JsonSpace)
                                            m == Append(acc, <<k.value.s, v.value>>)
                                        IN  IF j > Len(s) THEN JFail
                                            ELSE IF s[j] = ","
                                                 THEN ParseMembers(s, j + 1, m)
                                            ELSE IF s[j] = "}"
                                                 THEN JOk(JObj(m), j + 1)
                                            ELSE JFail

\* json.loads(data_str): not ok stands for json.JSONDecodeError
JsonLoads(s) ==
    LET r == ParseValue(s, 1)
    IN  IF ~r.ok THEN JFail
        ELSE IF RunEnd(s, r.next, JsonSpace) <= Len(s) THEN JFail
        ELSE r

\* bool(v), as `if choices:` and `if content:` take it
Truthy(v) ==
    CASE v.t = "null"   -> FALSE
      [] v.t = "number" -> \E i \in 1..Len(v.d) : v.d[i] # "0"
      [] v.t = "string" -> v.s # <<>>
      [] v.t = "array"  -> v.e # <<>>
      [] v.t = "object" -> v.f # <<>>

\* dict.get(key, default) on an object: of equal keys the last one counts
JGet(o, key, default) ==
    LET at == {i \in 1..Len(o.f) : o.f[i][1] = key}
    IN  IF at = {} THEN default
        ELSE o.f[CHOOSE i \in at : \A j \in at : j <= i][2]

Skipped    == [add |-> <<>>, warned |-> FALSE]
Warned     == [add |-> <<>>, warned |-> TRUE]
Added(txt) == [add |-> txt, warned |-> FALSE]

\* the try block over one data payload: the text it adds to full_response,
\* and whether `except Exception` printed its warning
ProcessData(data_str) ==
    LET r == JsonLoads(data_str)
    IN  IF ~r.ok THEN Skipped
        ELSE IF r.value.t # "object" THEN Warned
        ELSE LET choices == JGet(r.value, K_choices, JArr(<<>>))
             IN  IF ~Truthy(choices) THEN Skipped
                 ELSE IF choices.t # "array" THEN Warned
                 ELSE IF choices.e[1].t # "object" THEN Warned
                 ELSE LET delta == JGet(choices.e[1], K_delta, JObj(<<>>))
                      IN  IF delta.t # "object" THEN Warned
                          ELSE LET c == JGet(delta, K_content, JStr(<<>>))
                               IN  IF ~Truthy(c) THEN Skipped
                                   ELSE IF c.t # "string" THEN Warned
                                   ELSE Added(c.s)

\* the end marker compared without str.strip()
IsDone_Exact(data_str) == data_str = DoneText

\* data_str.strip() == "[DONE]"
IsDone(data_str) == Strip(data_str) = DoneText

\* the lines of a response body, each with what its author put in it:
\* the content it carries and whether it is the end marker
StreamLine(t, c, d) == [text |-> t, content |-> c, done |-> d]

T_ab    == <<"{", DQ, "c", "h", "o", "i", "c", "e", "s", DQ, ":", "[", "{", DQ, "d", "e", "l", "t", "a", DQ, ":", "{", DQ, "c", "o", "n", "t", "e", "n", "t", DQ, ":", DQ, "a", "b", DQ, "}", "}", "]", "}">>
T_c     == <<"{", DQ, "c", "h", "o", "i", "c", "e", "s", DQ, ":", "[", "{", DQ, "d", "e", "l", "t", "a", DQ, ":", "{", DQ, "c", "o", "n", "t", "e", "n", "t", DQ, ":", DQ, "c", DQ, "}", "}", ",", "{", DQ, "d", "e", "l", "t", "a", DQ, ":", "{", DQ, "c", "o", "n", "t", "e", "n", "t", DQ, ":", DQ, "z", DQ, "}", "}", "]", "}">>
T_empty == <<"{", DQ, "c", "h", "o", "i", "c", "e", "s", DQ, ":", "[", "{", DQ, "d", "e", "l", "t", "a", DQ, ":", "{", DQ, "c", "o", "n", "t", "e", "n", "t", DQ, ":", DQ, DQ, "}", "}", "]", "}">>
T_role  == <<"{", DQ, "c", "h", "o", "i", "c", "e", "s", DQ, ":", "[", "{", DQ, "d", "e", "l", "t", "a", DQ, ":", "{", DQ, "r", "o", "l", "e", DQ, ":", DQ, "a", DQ, "}", "}", "]", "}">>
T_null  == <<"{", DQ, "c", "h", "o", "i", "c", "e", "s", DQ, ":", "[", "{", DQ, "d", "e", "l", "t", "a", DQ, ":", "n", "u", "l", "l", "}", "]", "}">>
T_five  == <<"5">>
T_bad   == <<"{", "o", "o", "p", "s">>

SL_ab      == StreamLine(DataPrefix \o T_ab, <<"a", "b">>, FALSE)
SL_c       == StreamLine(DataPrefix \o T_c, <<"c">>, FALSE)
SL_padded  == StreamLine(DataPrefix \o <<SP>> \o T_ab \o <<SP>>, <<"a", "b">>, FALSE)
SL_empty   == StreamLine(DataPrefix \o T_empty, <<>>, FALSE)
SL_role    == StreamLine(DataPrefix \o T_role, <<>>, FALSE)
SL_null    == StreamLine(DataPrefix \o T_null, <<>>, FALSE)
SL_five    == StreamLine(DataPrefix \o T_five, <<>>, FALSE)
SL_bad     == StreamLine(DataPrefix \o T_bad, <<>>, FALSE)
SL_tight   == StreamLine(<<"d", "a", "t", "a", ":">> \o T_ab, <<>>, FALSE)
SL_ping    == StreamLine(<<":", SP, "p", "i", "n", "g">>, <<>>, FALSE)
SL_done    == StreamLine(DataPrefix \o DoneText, <<>>, TRUE)
SL_donePad == StreamLine(DataPrefix \o <<SP>> \o DoneText \o <<SP>>, <<>>, TRUE)

StreamLines ==
    { SL_ab, SL_c, SL_padded, SL_empty, SL_role, SL_null, SL_five, SL_bad,
      SL_tight, SL_ping, SL_done, SL_donePad }

Streams == UNION {[1..n -> StreamLines] : n \in 0..MaxLines}

\* the status codes of a response that is not 200
ErrorStatuses == {401, 500}

\* the except clauses of lines 301-306: httpx.TimeoutException, another
\* httpx.RequestError, any other Exception
TransportErrors == {"timeout", "network", "unexpected"}

\* where stream_v0_response goes after an except clause: on to the return
AfterTransportError_Retry == "start"

AfterTransportError == "returned"

InitStream ==
    /\ stream \in Streams
    /\ requests = 0
    /\ status = 0
    /\ fault = "none"
    /\ received = 0
    /\ full_response = <<>>
    /\ ret = <<>>
    /\ shown = <<>>
    /\ spc = "start"
    /\ SketchIdle
    /\ CacheIdle
    /\ ReplIdle
    /\ CliIdle
    /\ ToolsIdle

\* client.stream("POST", ...) answers with status 200
SendRequestOk ==
    /\ spc = "start"
    /\ requests' = requests + 1
    /\ status' = OkStatus
    /\ spc' = "streaming"
    /\ UNCHANGED <<stream, fault, received, full_response, ret, shown>>
    /\ UNCHANGED besidesStream

\* ... answers with another status: API error printed, return ""
SendRequestRejected ==
    /\ spc = "start"
    /\ requests' = requests + 1
    /\ \E st \in ErrorStatuses : status' = st
    /\ shown' = Append(shown, "api_error")
    /\ ret' = <<>>
    /\ spc' = "returned"
    /\ UNCHANGED <<stream, fault, received, full_response>>
    /\ UNCHANGED besidesStream

\* ... raises httpx.TimeoutException or another httpx.RequestError
SendRequestFails ==
    /\ spc = "start"
    /\ requests' = requests + 1
    /\ \E e \in TransportErrors :
          /\ fault' = e
          /\ shown' = Append(shown, e)
    /\ ret' = full_response
    /\ spc' = AfterTransportError
    /\ UNCHANGED <<stream, status, received, full_response>>
    /\ UNCHANGED besidesStream

\* one pass of `async for line in response.aiter_lines()`
ReadLine ==
    /\ spc = "streaming"
    /\ received < Len(stream)
    /\ received' = received + 1
    /\ LET line == stream[received + 1].text
           data_str == SubSeq(line, 7, Len(line))
       IN  IF ~StartsWith(line, DataPrefix)
           THEN UNCHANGED <<full_response, ret, shown, spc>>
           ELSE IF IsDone(data_str)
           THEN /\ ret' = full_response
                /\ spc' = "returned"
                /\ UNCHANGED <<full_response, shown>>
           ELSE /\ full_response' = full_response \o ProcessData(data_str).add
                /\ shown' = IF ProcessData(data_str).warned
                            THEN Append(shown, "warning")
                            ELSE shown
                /\ UNCHANGED <<ret, spc>>
    /\ UNCHANGED <<stream, requests, status, fault>>
    /\ UNCHANGED besidesStream

\* the body ends: the loop is left, full_response returned
StreamEnds ==
    /\ spc = "streaming"
    /\ received = Len(stream)
    /\ ret' = full_response
    /\ spc' = "returned"
    /\ UNCHANGED <<stream, requests, status, fault, received, full_response, shown>>
    /\ UNCHANGED besidesStream

\* reading the body raises a timeout or a network error: message printed,
\* what was accumulated is returned
ReadFails ==
    /\ spc = "streaming"
    /\ \E e \in TransportErrors :
          /\ fault' = e
          /\ shown' = Append(shown, e)
    /\ ret' = full_response
    /\ spc' = AfterTransportError
    /\ UNCHANGED <<stream, requests, status, received, full_response>>
    /\ UNCHANGED besidesStream

NextStream ==
    \/ SendRequestOk
    \/ SendRequestRejected
    \/ SendRequestFails
    \/ ReadLine
    \/ StreamEnds
    \/ ReadFails

SpecStream == InitStream /\ [][NextStream]_vars

----------------------------------------------------------------------------
(* C14, C15 *)

\* C14: a call of stream_v0_response issues one HTTP request and no more;
\* when the request or the reading of the body times out or fails with a
\* network error the call ends there with the error message shown.
C14_SingleRequest ==
    /\ requests <= 1
    /\ spc # "start" => requests = 1
    /\ fault # "none" =>
          /\ spc = "returned"
          /\ shown # <<>>
          /\ shown[Len(shown)] = fault

\* a timeout while the body is read, after one line: the call has ended
\* with one request made
C14_Witness ==
    /\ spc = "returned"
    /\ fault = "timeout"
    /\ received = 1
    /\ requests = 1
    /\ shown = <<"timeout">>

\* the contents, in order, of the lines before the first end marker
RECURSIVE ContentsFrom(_, _)
ContentsFrom(st, k) ==
    IF k > Len(st) THEN <<>>
    ELSE IF st[k].done THEN <<>>
    ELSE st[k].content \o ContentsFrom(st, k + 1)

\* C15: after a 200 response streamed to its end or to the end marker, the
\* returned text is the concatenation, in arrival order, of the non-empty
\* contents of the data lines before the first end marker; other lines add
\* nothing and do not end the stream.
C15_ReturnsConcatenation ==
    (spc = "returned" /\ status = OkStatus /\ fault = "none") =>
        /\ ret = ContentsFrom(stream, 1)
        /\ received = Len(stream) \/ stream[received].done

\* content, malformed JSON, content: both contents returned
C15_Witness ==
    /\ spc = "returned"
    /\ fault = "none"
    /\ stream = <<SL_ab, SL_bad, SL_c>>
    /\ ret = <<"a", "b", "c">>

\* content, end marker, content: only the first content returned
C15_WitnessDone ==
    /\ spc = "returned"
    /\ fault = "none"
    /\ stream = <<SL_ab, SL_donePad, SL_c>>
    /\ ret = <<"a", "b">>

----------------------------------------------------------------------------
(* Cache: get, set and clear over the SQLite table cache(key PRIMARY KEY) *)

MaxOps == 3

CacheKeys   == { <<"k", "1">>, <<"k", "2">> }
CacheValues == { <<"v", "1">>, <<"v", "2">>, <<>> }

Row(k, v) == [key |-> k, value |-> v]

\* the rows WHERE key = k
RowsWith(rows, k) == SelectSeq(rows, LAMBDA r : r.key = k)

\* INSERT OR IGNORE: a row whose key is taken is not inserted
InsertOrIgnore(rows, k, v) ==
    IF RowsWith(rows, k) # <<>> THEN rows ELSE Append(rows, Row(k, v))

\* INSERT OR REPLACE INTO cache (key, value): the row that holds the key is
\* deleted, the new row inserted
InsertOrReplace(rows, k, v) ==
    Append(SelectSeq(rows, LAMBDA r : r.key # k), Row(k, v))

\* SELECT value FROM cache WHERE key = ?; fetchone();
\* result[0] if result else None
SelectValue(rows, k) ==
    IF RowsWith(rows, k) = <<>> THEN None ELSE Some(RowsWith(rows, k)[1].value)

Op(name, k, v) == [op |-> name, key |-> k, value |-> v]

InitCache ==
    /\ db = <<>>
    /\ ops = <<>>
    /\ got = None
    /\ SketchIdle
    /\ StreamIdle
    /\ ReplIdle
    /\ CliIdle
    /\ ToolsIdle

\* Cache(): the table is created if it does not exist
CacheOpen ==
    /\ Len(ops) < MaxOps
    /\ ops' = Append(ops, Op("open", <<>>, <<>>))
    /\ UNCHANGED <<db, got>>
    /\ UNCHANGED besidesCache

CacheGet ==
    /\ Len(ops) < MaxOps
    /\ \E k \in CacheKeys :
          /\ got' = SelectValue(db, k)
          /\ ops' = Append(ops, Op("get", k, <<>>))
    /\ UNCHANGED db
    /\ UNCHANGED besidesCache

CacheSet ==
    /\ Len(ops) < MaxOps
    /\ \E k \in CacheKeys, v \in CacheValues :
          /\ db' = InsertOrReplace(db, k, v)
          /\ ops' = Append(ops, Op("set", k, v))
    /\ UNCHANGED got
    /\ UNCHANGED besidesCache

\* DELETE FROM cache
CacheClear ==
    /\ Len(ops) < MaxOps
    /\ db' = <<>>
    /\ ops' = Append(ops, Op("clear", <<>>, <<>>))
    /\ UNCHANGED got
    /\ UNCHANGED besidesCache

NextCache ==
    \/ CacheOpen
    \/ CacheGet
    \/ CacheSet
    \/ CacheClear

SpecCache == InitCache /\ [][NextCache]_vars

----------------------------------------------------------------------------
(* C16 *)

\* the value of the most recent set of k among the first n calls that no
\* clear follows; None when there is none
RECURSIVE LatestSet(_, _, _)
LatestSet(h, n, k) ==
    IF n = 0 THEN None
    ELSE IF h[n].op = "clear" THEN None
    ELSE IF h[n].op = "set" /\ h[n].key = k THEN Some(h[n].value)
    ELSE LatestSet(h, n - 1, k)

\* C16: after any sequence of set, get and clear calls the cache holds for
\* every key the value of its most recent set that no clear follows, and
\* nothing when there is none; a get returns just that and changes nothing,
\* and a set changes no other key.
C16_CacheIsAMap ==
    /\ \A k \in CacheKeys : SelectValue(db, k) = LatestSet(ops, Len(ops), k)
    /\ \A n \in 1..Len(ops) :
          (n = Len(ops) /\ ops[n].op = "get")
          => got = LatestSet(ops, n - 1, ops[n].key)
    /\ \A i, j \in 1..Len(db) : db[i].key = db[j].key => i = j

\* k1 set, set again, then read: the second value
C16_Witness ==
    /\ ops = << Op("set", <<"k", "1">>, <<"v", "1">>),
                Op("set", <<"k", "1">>, <<"v", "2">>),
                Op("get", <<"k", "1">>, <<>>) >>
    /\ got = Some(<<"v", "2">>)

----------------------------------------------------------------------------
(* repl(): the interactive shell, and shlex.split as it parses a line *)

MaxInputs == 3

BS == "\\"     \* the backslash
SQ == "'"

ShlexSpace == {SP, TAB, CR, NL}

ShlexError     == [ok |-> FALSE, args |-> <<>>]
ShlexDone(acc) == [ok |-> TRUE, args |-> acc]

\* shlex in POSIX mode with whitespace_split: the tokens of s from i on.
\* st is the state of the lexer (between tokens, in a word, in double or
\* single quotes, after a backslash in a word or in double quotes), tok the
\* token so far, q whether a quote was seen in it, acc the tokens before it
RECURSIVE Shlex(_, _, _, _, _, _)
Shlex(s, i, st, tok, q, acc) ==
    IF i > Len(s)
    THEN IF st \in {"dq", "sq", "esc_word", "esc_dq"} THEN ShlexError
         ELSE IF st = "word" /\ (tok # <<>> \/ q) THEN ShlexDone(Append(acc, tok))
         ELSE ShlexDone(acc)
    ELSE LET c == s[i]
         IN  CASE st = "space" ->
                    IF c \in ShlexSpace THEN Shlex(s, i + 1, "space", <<>>, FALSE, acc)
                    ELSE IF c = BS THEN Shlex(s, i + 1, "esc_word", tok, q, acc)
                    ELSE IF c = DQ THEN Shlex(s, i + 1, "dq", tok, TRUE, acc)
                    ELSE IF c = SQ THEN Shlex(s, i + 1, "sq", tok, TRUE, acc)
                    ELSE Shlex(s, i + 1, "word", <<c>>, q, acc)
               [] st = "word" ->
                    IF c \in ShlexSpace
                    THEN Shlex(s, i + 1, "space", <<>>, FALSE,
                               IF tok # <<>> \/ q THEN Append(acc, tok) ELSE acc)
                    ELSE IF c = BS THEN Shlex(s, i + 1, "esc_word", tok, q, acc)
                    ELSE IF c = DQ THEN Shlex(s, i + 1, "dq", tok, TRUE, acc)
                    ELSE IF c = SQ THEN Shlex(s, i + 1, "sq", tok, TRUE, acc)
                    ELSE Shlex(s, i + 1, "word", Append(tok, c), q, acc)
               [] st = "dq" ->
                    IF c = DQ THEN Shlex(s, i + 1, "word", tok, TRUE, acc)
                    ELSE IF c = BS THEN Shlex(s, i + 1, "esc_dq", tok, TRUE, acc)
                    ELSE Shlex(s, i + 1, "dq", Append(tok, c), TRUE, acc)
               [] st = "sq" ->
                    IF c = SQ THEN Shlex(s, i + 1, "word", tok, TRUE, acc)
                    ELSE Shlex(s, i + 1, "sq", Append(tok, c), TRUE, acc)
               [] st = "esc_word" ->
                    Shlex(s, i + 1, "word", Append(tok, c), q, acc)
               [] st = "esc_dq" ->
                    Shlex(s, i + 1, "dq",
                          IF c \in {BS, DQ} THEN Append(tok, c)
                          ELSE tok \o <<BS, c>>,
                          TRUE, acc)

RECURSIVE WordsFrom(_, _)
WordsFrom(s, i) ==
    LET a == RunEnd(s, i, SpaceChars)
        b == IF IndexOf(s, SP, a) = 0 THEN Len(s) + 1 ELSE IndexOf(s, SP, a)
    IN  IF a > Len(s) THEN <<>>
        ELSE <<SubSeq(s, a, b - 1)>> \o WordsFrom(s, b)

\* the line cut at blanks, quotes and backslashes left as they are
ShlexSplit_AtBlanks(s) == ShlexDone(WordsFrom(s, 1))

\* shlex.split(user_input): not ok stands for ValueError
ShlexSplit(s) == Shlex(s, 1, "space", <<>>, FALSE, <<>>)

S_help    == <<"/", "h", "e", "l", "p">>
S_what    == <<"?">>
S_status  == <<"/", "s", "t", "a", "t", "u", "s">>
S_exit    == <<"/", "e", "x", "i", "t">>
S_quit    == <<"/", "q", "u", "i", "t">>

\* user_input in ("/exit",)
IsQuit_ExitOnly(user_input) == user_input = S_exit

\* user_input in ("/help", "?")
IsHelp(user_input) == user_input \in {S_help, S_what}

\* user_input == "/status"
IsStatus(user_input) == user_input = S_status

\* user_input in ("/exit", "/quit")
IsQuit(user_input) == user_input \in {S_exit, S_quit}

\* the lines a user types, each with what its author means by it: an empty
\* line, a help, status or quit command, a command for the anvil CLI with
\* its arguments, or a line with broken quoting
ReplLine(t, c, a) == [text |-> t, class |-> c, args |-> a]

RL_empty    == ReplLine(<<>>,
                         "empty", <<>>)
RL_blank    == ReplLine(<<SP, SP>>,
                         "empty", <<>>)
RL_help     == ReplLine(<<"/", "h", "e", "l", "p">>,
                         "help", <<>>)
RL_what     == ReplLine(<<"?">>,
                         "help", <<>>)
RL_status   == ReplLine(<<"/", "s", "t", "a", "t", "u", "s">>,
                         "status", <<>>)
RL_exit     == ReplLine(<<"/", "e", "x", "i", "t">>,
                         "quit", <<>>)
RL_quit     == ReplLine(<<SP, "/", "q", "u", "i", "t", SP>>,
                         "quit", <<>>)
RL_version  == ReplLine(<<"v", "e", "r", "s", "i", "o", "n">>,
                         "command", << <<"v", "e", "r", "s", "i", "o", "n">> >>)
RL_quoted   == ReplLine(<<"s", "k", "e", "t", "c", "h", SP, DQ, "h", "e", "l", "l", "o", SP, "w", "o", "r", "l", "d", DQ>>,
                         "command", << <<"s", "k", "e", "t", "c", "h">>, <<"h", "e", "l", "l", "o", SP, "w", "o", "r", "l", "d">> >>)
RL_exitNow  == ReplLine(<<"/", "e", "x", "i", "t", SP, "n", "o", "w">>,
                         "command", << <<"/", "e", "x", "i", "t">>, <<"n", "o", "w">> >>)
RL_mixed    == ReplLine(<<SP, "s", "a", "y", SP, SQ, "a", SP, "b", SQ, SP, "c", BS, SP, "d", TAB>>,
                         "command", << <<"s", "a", "y">>, <<"a", SP, "b">>, <<"c", SP, "d">> >>)
RL_unclosed == ReplLine(<<"s", "k", "e", "t", "c", "h", SP, DQ, "u", "n", "c", "l", "o", "s", "e", "d", SP, "q", "u", "o", "t", "e">>,
                         "unparsable", <<>>)
RL_trailing == ReplLine(<<"a", BS, SP>>,
                         "unparsable", <<>>)

ReplLines ==
    { RL_empty, RL_blank, RL_help, RL_what, RL_status, RL_exit, RL_quit, RL_version, RL_quoted, RL_exitNow,
       RL_mixed, RL_unclosed, RL_trailing }

\* how a forwarded command goes inside execute_anvil_command: invoke
\* returns, SystemExit is raised, another exception is raised
Outcomes == {"ok", "exit", "error"}

Event(k, l, o) == [kind |-> k, line |-> l, outcome |-> o]

NoLine == ReplLine(<<>>, "none", <<>>)

\* show_welcome(): the panel, the tip, an empty line
Welcome == <<"welcome", "tip", "blank">>

\* the farewell left out
Farewell_Silent(o) == o

\* finally: the farewell line
Farewell(o) == Append(o, "bye")

\* what execute_anvil_command prints
CommandOutput(o) ==
    CASE o = "ok"    -> <<"output">>
      [] o = "exit"  -> <<>>
      [] o = "error" -> <<"exec_error">>

InitRepl ==
    /\ events = <<>>
    /\ rout = <<>>
    /\ calls = <<>>
    /\ rpc = "start"
    /\ SketchIdle
    /\ StreamIdle
    /\ CacheIdle
    /\ CliIdle
    /\ ToolsIdle

ReplStart ==
    /\ rpc = "start"
    /\ rout' = rout \o Welcome
    /\ rpc' = "loop"
    /\ UNCHANGED <<events, calls>>
    /\ UNCHANGED besidesRepl

\* one pass of the loop in which input() returns a line
ReplReadLine ==
    /\ rpc = "loop"
    /\ Len(events) < MaxInputs
    /\ \E l \in ReplLines, o \in Outcomes :
          LET user_input == Strip(l.text)
              parsed == ShlexSplit(user_input)
              forwarded == /\ user_input # <<>>
                           /\ ~IsHelp(user_input) /\ ~IsStatus(user_input)
                           /\ ~IsQuit(user_input)
                           /\ parsed.ok /\ parsed.args # <<>>
          IN  /\ forwarded \/ o = "ok"
              /\ events' = Append(events, Event("line", l, IF forwarded THEN o ELSE "none"))
              /\ IF user_input = <<>>
                 THEN /\ rout' = Append(rout, "prompt")
                      /\ UNCHANGED <<calls, rpc>>
                 ELSE IF IsHelp(user_input)
                 THEN /\ rout' = rout \o <<"prompt", "help", "blank">>
                      /\ UNCHANGED <<calls, rpc>>
                 ELSE IF IsStatus(user_input)
                 THEN /\ rout' = rout \o <<"prompt", "status", "blank">>
                      /\ UNCHANGED <<calls, rpc>>
                 ELSE IF IsQuit(user_input)
                 THEN /\ rout' = Farewell(Append(rout, "prompt"))
                      /\ rpc' = "ended"
                      /\ UNCHANGED calls
                 ELSE IF ~parsed.ok
                 THEN /\ rout' = rout \o <<"prompt", "parse_error", "blank">>
                      /\ UNCHANGED <<calls, rpc>>
                 ELSE IF parsed.args = <<>>
                 THEN /\ rout' = rout \o <<"prompt", "blank">>
                      /\ UNCHANGED <<calls, rpc>>
                 ELSE /\ calls' = Append(calls, parsed.args)
                      /\ rout' = rout \o <<"prompt">> \o CommandOutput(o)
                                      \o <<"blank">>
                      /\ UNCHANGED rpc
    /\ UNCHANGED besidesRepl

\* input() raises KeyboardInterrupt: the hint, and on with the loop
ReplInterrupt ==
    /\ rpc = "loop"
    /\ Len(events) < MaxInputs
    /\ events' = Append(events, Event("interrupt", NoLine, "none"))
    /\ rout' = rout \o <<"prompt", "hint", "blank">>
    /\ UNCHANGED <<calls, rpc>>
    /\ UNCHANGED besidesRepl

\* input() raises EOFError: break, then the finally clause
ReplEof ==
    /\ rpc = "loop"
    /\ Len(events) < MaxInputs
    /\ events' = Append(events, Event("eof", NoLine, "none"))
    /\ rout' = Farewell(Append(rout, "prompt"))
    /\ rpc' = "ended"
    /\ UNCHANGED calls
    /\ UNCHANGED besidesRepl

\* input() raises another exception (stdin cannot be read or decoded): no
\* except clause of the loop takes it, the finally clause runs and the
\* exception leaves repl()
ReplInputFails ==
    /\ rpc = "loop"
    /\ Len(events) < MaxInputs
    /\ events' = Append(events, Event("error", NoLine, "none"))
    /\ rout' = Farewell(Append(rout, "prompt"))
    /\ rpc' = "raised"
    /\ UNCHANGED calls
    /\ UNCHANGED besidesRepl

NextRepl ==
    \/ ReplStart
    \/ ReplReadLine
    \/ ReplInterrupt
    \/ ReplEof
    \/ ReplInputFails

SpecRepl == InitRepl /\ [][NextRepl]_vars

----------------------------------------------------------------------------
(* C17 .. C19 *)

LoopLeft == rpc \in {"ended", "raised"}

\* the event is /exit, /quit or the end of the input
AsksToLeave(e) ==
    \/ e.kind = "eof"
    \/ e.kind = "line" /\ e.line.class = "quit"

\* C17 as claimed: the loop has ended exactly when the last event is /exit,
\* /quit or EOF; after every other event it runs on.
C17_EndsOnlyOnRequest ==
    rpc # "start" =>
        /\ LoopLeft <=> (events # <<>> /\ AsksToLeave(events[Len(events)]))
        /\ \A i \in 1..(Len(events) - 1) : ~AsksToLeave(events[i])

\* C17 amended: the loop has ended exactly when the last event is /exit,
\* /quit, EOF or an exception of input() other than KeyboardInterrupt and
\* EOFError; after an empty line, /help, ?, /status, a KeyboardInterrupt, a
\* line that cannot be parsed and a forwarded command, however it went, the
\* loop runs on.
C17_EndsOnRequestOrException ==
    rpc # "start" =>
        /\ LoopLeft <=>
              ( /\ events # <<>>
                /\ \/ AsksToLeave(events[Len(events)])
                   \/ events[Len(events)].kind = "error" )
        /\ \A i \in 1..(Len(events) - 1) :
              ~AsksToLeave(events[i]) /\ events[i].kind # "error"
        /\ (events # <<>> /\ events[Len(events)].kind = "interrupt")
           => SubSeq(rout, Len(rout) - 1, Len(rout)) = <<"hint", "blank">>

\* a KeyboardInterrupt, a line with an unclosed quote, then a command that
\* raised: the loop still runs
C17_Witness ==
    /\ rpc = "loop"
    /\ Len(events) = 3
    /\ events[1].kind = "interrupt"
    /\ events[2].line = RL_unclosed
    /\ events[3].line = RL_version /\ events[3].outcome = "error"

\* the argument lists of the command lines among the events, in order
RECURSIVE Commands(_, _)
Commands(h, n) ==
    IF n = 0 THEN <<>>
    ELSE IF h[n].kind = "line" /\ h[n].line.class = "command"
         THEN Append(Commands(h, n - 1), h[n].line.args)
         ELSE Commands(h, n - 1)

Count(seq, x) == Cardinality({i \in 1..Len(seq) : seq[i] = x})

Unparsable(h) ==
    {i \in 1..Len(h) : h[i].kind = "line" /\ h[i].line.class = "unparsable"}

\* C18: execute_anvil_command was called once for each command line read,
\* in order, with the arguments the line spells, and for nothing else; for
\* each line with broken quoting a parse error was printed.
C18_DispatchesCommandLines ==
    /\ calls = Commands(events, Len(events))
    /\ Count(rout, "parse_error") = Cardinality(Unparsable(events))

\* sketch "hello world" dispatched as [sketch, hello world]; /help and the
\* unclosed quote dispatched nothing
C18_Witness ==
    /\ Len(events) = 3
    /\ events[1].line = RL_help
    /\ events[2].line = RL_quoted
    /\ events[3].line = RL_unclosed
    /\ calls = << << <<"s", "k", "e", "t", "c", "h">>,
                     <<"h", "e", "l", "l", "o", SP, "w", "o", "r", "l", "d">> >> >>
    /\ Count(rout, "parse_error") = 1

\* C19: repl() prints the welcome panel first; once the loop is left, by
\* /exit, /quit, EOF or an escaping exception, the farewell line has been
\* printed exactly once and is the last output; before that it has not
\* been printed.
C19_WelcomeFirstFarewellLast ==
    /\ rout # <<>> => rout[1] = "welcome"
    /\ rpc = "loop" => (rout # <<>> /\ Count(rout, "bye") = 0)
    /\ LoopLeft => (Count(rout, "bye") = 1 /\ rout[Len(rout)] = "bye")

\* the loop left by an exception after a command: farewell printed last
C19_Witness ==
    /\ rpc = "raised"
    /\ Len(events) = 2
    /\ events[1].line = RL_version
    /\ rout = Welcome \o <<"prompt", "output", "blank", "prompt", "bye">>

----------------------------------------------------------------------------
(* anvil.cli.app: what is registered on it, and how an invocation ends *)

MaxRuns == 2

\* the command groups of the repository and their commands: sketch.py,
\* build.py and plugins/example.py
Groups == {"sketch", "build", "example"}

Subcommands(g) ==
    CASE g = "sketch"  -> {"config", "create", "doctor"}
      [] g = "build"   -> {"config", "create", "chat"}
      [] g = "example" -> {"hello"}

\* what the modules found in anvil/plugins register on the app
PluginGroups == {"example"}

\* the exit code of runner.invoke(app, args) for the argument lists below:
\* 2 is the usage error for a name that is not registered or a group
\* called without a command, 0 the help page or a command that returns
ExitCode(reg, args) ==
    IF args[1] = "--help" THEN 0
    ELSE IF args[1] \notin reg THEN 2
    ELSE IF args[1] \notin Groups THEN 0
    ELSE IF Len(args) = 1 THEN 2
    ELSE IF args[2] = "--help" THEN 0
    ELSE IF args[2] \notin Subcommands(args[1]) THEN 2
    ELSE 0

ArgLists ==
    { <<"--help">>, <<"version">>, <<"sketch", "--help">>, <<"sketch">>,
      <<"build", "--help">>, <<"build", "create", "--help">>,
      <<"build", "chat", "--help">>, <<"build", "config", "--help">>,
      <<"example", "hello">>, <<"example", "--help">>,
      <<"example", "bye">> }

Run(a, code, plugins) == [args |-> a, exit |-> code, plugins |-> plugins]

\* line 168 is a comment: importing cli.py registers no plugin
InitCli ==
    /\ CliIdle
    /\ SketchIdle
    /\ StreamIdle
    /\ CacheIdle
    /\ ReplIdle
    /\ ToolsIdle

\* runner.invoke(app, args)
CliInvoke ==
    /\ Len(runs) < MaxRuns
    /\ \E a \in ArgLists :
          runs' = Append(runs, Run(a, ExitCode(registered, a), discovered))
    /\ UNCHANGED <<registered, discovered>>
    /\ UNCHANGED besidesCli

\* discover_and_register_plugins() called by hand, as the tests of the
\* plugin loader do
CliDiscover ==
    /\ ~discovered
    /\ registered' = registered \cup PluginGroups
    /\ discovered' = TRUE
    /\ UNCHANGED runs
    /\ UNCHANGED besidesCli

NextCli ==
    \/ CliInvoke
    \/ CliDiscover

SpecCli == InitCli /\ [][NextCli]_vars

----------------------------------------------------------------------------
(* C20 *)

\* C20: on the app as imported, `build --help`, the help of build create,
\* build chat and build config, and `example hello` exit with status 0.
C20_BuildAndExampleExposed ==
    \A i \in 1..Len(runs) :
        ( /\ ~runs[i].plugins
          /\ runs[i].args \in
                { <<"build", "--help">>, <<"build", "create", "--help">>,
                  <<"build", "chat", "--help">>, <<"build", "config", "--help">>,
                  <<"example", "hello">> } )
        => runs[i].exit = 0

\* what does hold: the sketch group and the version command are exposed at
\* import, and the example group once discover_and_register_plugins() ran
C20_SketchExposed ==
    /\ {"sketch", "version"} \subseteq registered
    /\ \A i \in 1..Len(runs) :
          /\ runs[i].args \in {<<"sketch", "--help">>, <<"version">>}
             => runs[i].exit = 0
          /\ (runs[i].plugins /\ runs[i].args = <<"example", "hello">>)
             => runs[i].exit = 0

----------------------------------------------------------------------------
(* build create (src/anvil/commands/build.py), run on build.py's own app *)

MaxMessages == 2

\* bool(api_key) of an Optional[str]
HasKey(k) == k.some /\ k.value # <<>>

K_one == <<"k", "1">>
K_two == <<"k", "2">>

\* what a run of build create finds: whether claude_code_sdk imported
\* (query is not None), what get_anthropic_api_key() returns, whether
\* shutil.which("claude") finds the CLI, and --dir: not given, the empty
\* string, an existing or a missing directory
BuildRuns ==
    [ sdk    : BOOLEAN,
      key    : {None, Some(<<>>), Some(K_one)},
      claude : BOOLEAN,
      dir    : {"none", "empty", "exists", "missing"} ]

\* the checks of create() with claude looked up before the key
FailedCheck_ClaudeFirst(r) ==
    IF ~r.sdk THEN "sdk"
    ELSE IF ~r.claude THEN "claude"
    ELSE IF ~HasKey(r.key) THEN "key"
    ELSE IF r.dir = "missing" THEN "dir"
    ELSE "none"

\* create(), lines 245-275: the first check that fails, "none" if all pass
FailedCheck(r) ==
    IF ~r.sdk THEN "sdk"
    ELSE IF ~HasKey(r.key) THEN "key"
    ELSE IF ~r.claude THEN "claude"
    ELSE IF r.dir \notin {"none", "empty"} /\ r.dir = "missing" THEN "dir"
    ELSE "none"

\* the red line printed for a failed check
CheckMessage(c) ==
    CASE c = "sdk"    -> "Claude Code SDK not installed."
      [] c = "key"    -> "ANTHROPIC_API_KEY not found."
      [] c = "claude" -> "Claude Code CLI not found."
      [] c = "dir"    -> "Working directory does not exist"

\* the messages query() may yield: an AssistantMessage with a TextBlock or
\* with a ToolUseBlock, and any other message
BuildMessages == {"text", "tool_use", "other"}

\* the exceptions stream_claude_response catches, and what it prints
StreamErrors == {"cli_not_found", "connection", "process", "sdk", "other"}

ErrorLine(e) ==
    CASE e = "cli_not_found" -> "Claude Code CLI not found. Please install it first:"
      [] e = "connection"    -> "Failed to connect to Claude Code"
      [] e = "process"       -> "Claude Code process error"
      [] e = "sdk"           -> "Claude SDK error"
      [] e = "other"         -> "Unexpected error"

\* stream_claude_response losing the messages when the stream raised
ReturnedAfterError_Nothing(msgs) == <<>>

\* line 226 after an except clause of lines 214-224
ReturnedAfterError(msgs) == msgs

\* create(), lines 321-340: what is printed for the returned messages
Report(messages) ==
    IF messages # <<>>
    THEN <<"Build completed successfully!">>
         \o (IF \E i \in 1..Len(messages) : messages[i] = "tool_use"
             THEN <<"Tools used:">> ELSE <<>>)
    ELSE <<"No response received from Claude">>

InitBuild ==
    /\ BuildIdle
    /\ FirstIdle
    /\ ConfigIdle
    /\ PaletteIdle
    /\ GenerateIdle
    /\ DoctorIdle

\* create() up to the call of query(): a failed check prints its message
\* and raises typer.Exit(1)
BuildCreateRejected ==
    /\ bpc = "start"
    /\ \E r \in BuildRuns :
          /\ FailedCheck(r) # "none"
          /\ brun' = <<r>>
          /\ bout' = <<CheckMessage(FailedCheck(r))>>
    /\ bpc' = "exit1"
    /\ UNCHANGED <<bsession, bmsgs, bret>>
    /\ UNCHANGED besidesBuild

BuildCreateStarts ==
    /\ bpc = "start"
    /\ \E r \in BuildRuns :
          /\ FailedCheck(r) = "none"
          /\ brun' = <<r>>
    /\ bout' = <<"Building", "Starting Claude Code session...">>
    /\ bsession' = bsession + 1
    /\ bpc' = "session"
    /\ UNCHANGED <<bmsgs, bret>>
    /\ UNCHANGED besidesBuild

\* one turn of the async for of line 184
BuildMessage ==
    /\ bpc = "session"
    /\ Len(bmsgs) < MaxMessages
    /\ \E m \in BuildMessages : bmsgs' = Append(bmsgs, m)
    /\ UNCHANGED <<brun, bpc, bsession, bret, bout>>
    /\ UNCHANGED besidesBuild

\* the generator is exhausted: the messages are returned and reported
BuildStreamEnds ==
    /\ bpc = "session"
    /\ bret' = bmsgs
    /\ bout' = bout \o Report(bmsgs)
    /\ bpc' = "done"
    /\ UNCHANGED <<brun, bsession, bmsgs>>
    /\ UNCHANGED besidesBuild

\* query() raises an Exception: printed, then the messages are returned
BuildStreamFails ==
    /\ bpc = "session"
    /\ \E e \in StreamErrors :
          bout' = bout \o <<ErrorLine(e)>> \o Report(ReturnedAfterError(bmsgs))
    /\ bret' = ReturnedAfterError(bmsgs)
    /\ bpc' = "done"
    /\ UNCHANGED <<brun, bsession, bmsgs>>
    /\ UNCHANGED besidesBuild

\* KeyboardInterrupt is no Exception: it leaves stream_claude_response and
\* is caught at line 342
BuildInterrupted ==
    /\ bpc = "session"
    /\ bout' = Append(bout, "Build cancelled by user")
    /\ bpc' = "cancelled"
    /\ UNCHANGED <<brun, bsession, bmsgs, bret>>
    /\ UNCHANGED besidesBuild

NextBuild ==
    \/ BuildCreateRejected
    \/ BuildCreateStarts
    \/ BuildMessage
    \/ BuildStreamEnds
    \/ BuildStreamFails
    \/ BuildInterrupted

SpecBuild == InitBuild /\ [][NextBuild]_vars

----------------------------------------------------------------------------
(* C21 *)

Printed(lines, m) == \E i \in 1..Len(lines) : lines[i] = m

\* the message of the first missing prerequisite, in the order SDK, key,
\* claude, --dir
FirstMissing(r) ==
    IF ~r.sdk THEN "Claude Code SDK not installed."
    ELSE IF ~HasKey(r.key) THEN "ANTHROPIC_API_KEY not found."
    ELSE IF ~r.claude THEN "Claude Code CLI not found."
    ELSE "Working directory does not exist"

PrerequisiteMissing(r) ==
    ~r.sdk \/ ~HasKey(r.key) \/ ~r.claude \/ r.dir = "missing"

\* C21: when a prerequisite of build create is missing the command exits
\* with status 1, no Claude session was started, and the one message
\* shown is that of the first failing check in the order SDK, API key,
\* claude CLI, --dir.
C21_FirstFailingCheck ==
    (brun # <<>> /\ PrerequisiteMissing(brun[1]))
        => /\ bpc = "exit1"
           /\ bsession = 0
           /\ bout = <<FirstMissing(brun[1])>>

\* a run with the SDK, without a key and without the claude CLI
C21_Witness ==
    /\ brun # <<>>
    /\ brun[1].sdk /\ ~HasKey(brun[1].key) /\ ~brun[1].claude
    /\ bpc = "exit1"

----------------------------------------------------------------------------
(* C28 *)

\* C28: build create prints the success line exactly when
\* stream_claude_response returned at least one message, and the
\* no-response line exactly when it returned none; an error raised by the
\* stream is printed, the messages received before it are returned, and
\* once a session was started the command does not exit with status 1.
C28_SuccessIffMessages ==
    /\ Printed(bout, "Build completed successfully!")
          <=> (bpc = "done" /\ bret # <<>>)
    /\ Printed(bout, "No response received from Claude")
          <=> (bpc = "done" /\ bret = <<>>)
    /\ bpc = "done" => bret = bmsgs
    /\ bsession > 0 => bpc # "exit1"

\* the stream raised after a message: both the error and the success line
C28_Witness ==
    /\ bpc = "done"
    /\ bmsgs # <<>>
    /\ \E e \in StreamErrors : Printed(bout, ErrorLine(e))
    /\ Printed(bout, "Build completed successfully!")

----------------------------------------------------------------------------
(* The API keys: get_api_key / get_anthropic_api_key, config --set-key and *)
(* config --show of sketch.py and build.py.  The two modules hold the same *)
(* code for their variable, V0_API_KEY and ANTHROPIC_API_KEY.              *)

MaxKeyOps == 3

VarName(t) ==
    IF t = "sketch" THEN <<"V", "0", "_", "A", "P", "I", "_", "K", "E", "Y">>
    ELSE <<"A", "N", "T", "H", "R", "O", "P", "I", "C", "_", "A", "P", "I", "_", "K", "E", "Y">>

\* the keys given to --set-key: one per tool
K_env  == <<"k", "e">>
K_test == <<"s", "k", "-", "a", "n", "t", "-", "t", "e", "s", "t", "1", "2", "3", "4", "5", "6">>
K_long == <<"s", "k", "-", "a", "n", "t", "-", "n", "e", "w", "-", "0", "1", "2", "3", "4", "5", "6">>

SetKeyOf(t) == IF t = "sketch" THEN K_two ELSE K_long

IsChar(c) == c # ""

\* text mode reading: \r\n and \r become \n
UniversalNewlines(s) ==
    SelectSeq([i \in 1..Len(s) |->
                  IF s[i] = NL /\ i > 1 /\ s[i - 1] = CR THEN ""
                  ELSE IF s[i] = CR THEN NL
                  ELSE s[i]],
              IsChar)

\* the k-th smallest member of a set of numbers
NthOf(S, k) == CHOOSE e \in S : Cardinality({x \in S : x <= e}) = k

\* the lines of a text whose only line end is \n, each with its end
KeepEnds(s) ==
    LET ends == {i \in 1..Len(s) : s[i] = NL \/ i = Len(s)}
    IN  [k \in 1..Cardinality(ends) |->
            SubSeq(s, IF k = 1 THEN 1 ELSE NthOf(ends, k - 1) + 1,
                   NthOf(ends, k))]

\* f.readlines() of a file opened with mode 'r'
ReadLines(text) == KeepEnds(UniversalNewlines(text))

RECURSIVE Join(_)
Join(ls) == IF ls = <<>> THEN <<>> ELSE Head(ls) \o Join(Tail(ls))

\* line.strip().startswith('<VAR>=')
IsKeyLine(t, line) == StartsWith(Strip(line), Append(VarName(t), "="))

\* the lines that do not set the variable of tool t
RECURSIVE WithoutKeyLines(_, _)
WithoutKeyLines(t, ls) ==
    IF ls = <<>> THEN <<>>
    ELSE (IF IsKeyLine(t, Head(ls)) THEN <<>> ELSE <<Head(ls)>>)
         \o WithoutKeyLines(t, Tail(ls))

\* --set-key that appends without removing the old lines
Rewrite_AppendOnly(t, file, key) ==
    LET existing == IF file.some THEN UniversalNewlines(file.value) ELSE <<>>
    IN  existing
        \o (IF existing # <<>> /\ existing[Len(existing)] # NL
            THEN <<NL>> ELSE <<>>)
        \o VarName(t) \o <<"=">> \o key \o <<NL>>

\* the new content of the .env file: sketch.py 67-82 and 102-117,
\* build.py 65-80 and 100-115
Rewrite(t, file, key) ==
    LET existing == IF file.some
                    THEN Join(WithoutKeyLines(t, ReadLines(file.value)))
                    ELSE <<>>
    IN  existing
        \o (IF existing # <<>> /\ existing[Len(existing)] # NL
            THEN <<NL>> ELSE <<>>)
        \o VarName(t) \o <<"=">> \o key \o <<NL>>

\* python-dotenv on the files below: a line NAME=value binds NAME to the
\* value, blanks around both removed; a line without = or starting with #
\* binds nothing; the last binding of a name wins
Binding(line) ==
    LET s  == Strip(line)
        eq == IndexOf(s, "=", 1)
    IN  IF s = <<>> \/ s[1] = "#" \/ eq = 0 THEN None
        ELSE Some(<< Strip(SubSeq(s, 1, eq - 1)),
                     Strip(SubSeq(s, eq + 1, Len(s))) >>)

RECURSIVE LastBinding(_, _, _)
LastBinding(ls, name, i) ==
    IF i = 0 THEN None
    ELSE IF Binding(ls[i]).some /\ Binding(ls[i]).value[1] = name
         THEN Some(Binding(ls[i]).value[2])
         ELSE LastBinding(ls, name, i - 1)

DotenvValue(file, t) ==
    IF ~file.some THEN None
    ELSE LastBinding(ReadLines(file.value), VarName(t), Len(ReadLines(file.value)))

\* load_dotenv(path, override=True)
LoadDotenv_Override(env, file) ==
    [t \in Tools |-> IF DotenvValue(file, t).some THEN DotenvValue(file, t)
                     ELSE env[t]]

\* load_dotenv(path): override is False, a variable already in os.environ
\* keeps its value
LoadDotenv(env, file) ==
    [t \in Tools |-> IF env[t].some THEN env[t] ELSE DotenvValue(file, t)]

\* os.environ after the three load_dotenv calls of get_api_key
LoadAll(env, fls) ==
    LoadDotenv(LoadDotenv(LoadDotenv(env, fls["found"]), fls["local"]),
               fls["global"])

\* config --show, sketch.py 127 and build.py 125
Mask(key) ==
    IF Len(key) > 12
    THEN SubSeq(key, 1, 8) \o <<".", ".", ".">> \o SubSeq(key, Len(key) - 3, Len(key))
    ELSE <<"*", "*", "*">>

\* the .env files of the runs
F_sketch   == <<"V", "0", "_", "A", "P", "I", "_", "K", "E", "Y", "=", "k", "1", NL>>
F_global   == <<"V", "0", "_", "A", "P", "I", "_", "K", "E", "Y", "=", "k", "g", NL>>
F_found    == <<"V", "0", "_", "A", "P", "I", "_", "K", "E", "Y", "=", "k", "f", NL>>
F_both     == <<"A", "N", "T", "H", "R", "O", "P", "I", "C", "_", "A", "P", "I", "_", "K", "E", "Y", "=">> \o K_test \o <<NL, "V", "0", "_", "A", "P", "I", "_", "K", "E", "Y", "=", "k", "1", NL>>
F_indented == <<SP, SP, "V", "0", "_", "A", "P", "I", "_", "K", "E", "Y", "=", "k", "1", NL, "A", "=", "1">>
F_crlf     == <<"A", "=", "1", CR, NL, "V", "0", "_", "A", "P", "I", "_", "K", "E", "Y", "=", "k", "1", CR, NL>>
F_twice    == <<"V", "0", "_", "A", "P", "I", "_", "K", "E", "Y", "=", "k", "1", NL, "#", "c", NL, "V", "0", "_", "A", "P", "I", "_", "K", "E", "Y", "=", "k", "3", NL>>
F_similar  == <<"V", "0", "_", "A", "P", "I", "_", "K", "E", "Y", "_", "2", "=", "x", NL, "A", "N", "T", "H", "R", "O", "P", "I", "C", "_", "A", "P", "I", "_", "K", "E", "Y", "=", "k", "b">>
F_bare     == <<"V", "0", "_", "A", "P", "I", "_", "K", "E", "Y", NL, NL>>

KeyOp(op, t, scope, key, printed, after) ==
    [ op |-> op, tool |-> t, scope |-> scope, key |-> key,
      printed |-> printed, after |-> after,
      env |-> environ, files |-> envfiles ]

\* a process with or without V0_API_KEY exported, in a directory with or
\* without .env files
InitKeys ==
    /\ \E e \in {None, Some(K_env)} :
          environ = [t \in Tools |-> IF t = "sketch" THEN e ELSE None]
    /\ \E f \in {None, Some(F_found)},
          l \in {None, Some(F_sketch), Some(F_both)},
          g \in {None, Some(F_global)} :
          envfiles = [found |-> f, local |-> l, global |-> g]
    /\ klog = <<>>
    /\ FirstIdle
    /\ BuildIdle
    /\ PaletteIdle
    /\ GenerateIdle
    /\ DoctorIdle

\* a directory whose .env files hold other lines, for config --set-key
InitSetKey ==
    /\ environ = [t \in Tools |-> None]
    /\ \E l \in {None, Some(<<>>), Some(F_sketch), Some(F_global),
                  Some(F_both), Some(F_indented), Some(F_crlf),
                  Some(F_twice), Some(F_similar), Some(F_bare)},
          g \in {None, Some(F_global), Some(F_both)} :
          envfiles = [found |-> None, local |-> l, global |-> g]
    /\ klog = <<>>
    /\ FirstIdle
    /\ BuildIdle
    /\ PaletteIdle
    /\ GenerateIdle
    /\ DoctorIdle

\* get_api_key() / get_anthropic_api_key(), as create and doctor call it
GetApiKey ==
    /\ Len(klog) < MaxKeyOps
    /\ \E t \in Tools :
          /\ environ' = LoadAll(environ, envfiles)
          /\ klog' = Append(klog, KeyOp("get", t, "", environ'[t], <<>>, None))
    /\ UNCHANGED envfiles
    /\ UNCHANGED besidesConfig

\* config --show
ConfigShow ==
    /\ Len(klog) < MaxKeyOps
    /\ \E t \in Tools :
          /\ environ' = LoadAll(environ, envfiles)
          /\ klog' = Append(klog,
                KeyOp("show", t, "", environ'[t],
                      IF HasKey(environ'[t]) THEN Mask(environ'[t].value)
                      ELSE <<>>,
                      None))
    /\ UNCHANGED envfiles
    /\ UNCHANGED besidesConfig

\* config --set-key K [--global]
ConfigSetKey ==
    /\ Len(klog) < MaxKeyOps
    /\ \E t \in Tools, scope \in {"local", "global"} :
          LET new == Some(Rewrite(t, envfiles[scope], SetKeyOf(t)))
          IN  /\ envfiles' = [envfiles EXCEPT ![scope] = new]
              /\ klog' = Append(klog,
                    KeyOp("set", t, scope, Some(SetKeyOf(t)), <<>>, new))
    /\ UNCHANGED environ
    /\ UNCHANGED besidesConfig

NextKeys ==
    \/ GetApiKey
    \/ ConfigShow
    \/ ConfigSetKey

SpecKeys == InitKeys /\ [][NextKeys]_vars

NextSetKey == ConfigSetKey

SpecSetKey == InitSetKey /\ [][NextSetKey]_vars

----------------------------------------------------------------------------
(* C22 *)

Lookups == {i \in 1..Len(klog) : klog[i].op \in {"get", "show"}}

\* C22: build config --show prints a stored key as its first nine
\* characters, `...` and its last four characters.
C22_MaskNineAndFour ==
    \A i \in 1..Len(klog) :
        ( /\ klog[i].op = "show"
          /\ klog[i].tool = "build"
          /\ klog[i].key.some
          /\ Len(klog[i].key.value) > 13 )
        => LET k == klog[i].key.value
           IN  klog[i].printed =
                   SubSeq(k, 1, 9) \o <<".", ".", ".">>
                   \o SubSeq(k, Len(k) - 3, Len(k))

----------------------------------------------------------------------------
(* C23 *)

\* the value of the highest source that defines the variable, in the
\* documented order: the local .env, ~/.anvil/.env, the process environment
Documented(t, env, fls) ==
    IF DotenvValue(fls["local"], t).some THEN DotenvValue(fls["local"], t)
    ELSE IF DotenvValue(fls["global"], t).some THEN DotenvValue(fls["global"], t)
    ELSE env[t]

\* C23: the first lookup of a process returns the value of the highest
\* source that defines the key, the local .env before the global one
\* before the environment variable (no other .env file being in reach).
C23_DocumentedPriority ==
    (Len(klog) >= 1 /\ 1 \in Lookups /\ ~klog[1].files["found"].some)
        => klog[1].key = Documented(klog[1].tool, klog[1].env, klog[1].files)

----------------------------------------------------------------------------
(* C25 *)

\* C25: once a lookup has returned a value for a tool's key, every later
\* lookup of that key in the process returns the same value, whatever
\* config --set-key wrote to the .env files in between.
C25_LookupIsSticky ==
    \A i \in Lookups, j \in Lookups :
        (i < j /\ klog[i].tool = klog[j].tool /\ klog[i].key.some)
            => klog[j].key = klog[i].key

\* a lookup, then --set-key with another key, then a lookup with the new
\* key in the local file
C25_Witness ==
    /\ Len(klog) = 3
    /\ klog[1].op = "get" /\ klog[1].tool = "sketch" /\ klog[1].key.some
    /\ klog[2].op = "set" /\ klog[2].tool = "sketch"
    /\ klog[2].scope = "local" /\ klog[2].key # klog[1].key
    /\ klog[3].op = "get" /\ klog[3].tool = "sketch"
    /\ DotenvValue(klog[3].files["local"], "sketch") = klog[2].key
    /\ klog[3].key = klog[1].key

----------------------------------------------------------------------------
(* C26 *)

\* the lines of a text without their ends \n, \r\n or \r
SplitLines(s) ==
    LET CrLf(i) == s[i] = CR /\ i < Len(s) /\ s[i + 1] = NL
        breaks  == {i \in 1..Len(s) : s[i] \in {NL, CR} /\ ~CrLf(i)}
        ends    == breaks \cup (IF s = <<>> THEN {} ELSE {Len(s)})
        From(k) == IF k = 1 THEN 1 ELSE NthOf(ends, k - 1) + 1
        To(k)   == LET e == NthOf(ends, k)
                   IN  IF e \notin breaks THEN e
                       ELSE IF e > From(k) /\ CrLf(e - 1) THEN e - 2
                       ELSE e - 1
    IN  [k \in 1..Cardinality(ends) |-> SubSeq(s, From(k), To(k))]

\* the line starts, leading whitespace ignored, with <VAR>=
StartsWithVar(t, l) ==
    StartsWith(SubSeq(l, RunEnd(l, 1, SpaceChars), Len(l)),
               VarName(t) \o <<"=">>)

\* the lines among ls[k..] that do not start with <VAR>=
RECURSIVE OtherLines(_, _, _)
OtherLines(t, ls, k) ==
    IF k > Len(ls) THEN <<>>
    ELSE IF StartsWithVar(t, ls[k]) THEN OtherLines(t, ls, k + 1)
    ELSE <<ls[k]>> \o OtherLines(t, ls, k + 1)

\* the .env files once command i has run
FilesAfter(i) == IF i < Len(klog) THEN klog[i + 1].files ELSE envfiles

\* C26: config --set-key K leaves in the .env file the previous lines that
\* do not start with <VAR>=, in their order, then the one line <VAR>=K,
\* ended by a newline; no other file changes; the same command run again
\* leaves the file as it is.
C26_SetKeyRewrite ==
    \A i \in 1..Len(klog) :
        klog[i].op = "set" =>
            LET e    == klog[i]
                old  == e.files[e.scope]
                new  == e.after.value
                kept == IF old.some
                        THEN OtherLines(e.tool, SplitLines(old.value), 1)
                        ELSE <<>>
                now  == SplitLines(new)
            IN  /\ now = Append(kept, VarName(e.tool) \o <<"=">> \o e.key.value)
                /\ new[Len(new)] = NL
                /\ Cardinality({k \in 1..Len(now) : StartsWithVar(e.tool, now[k])}) = 1
                /\ FilesAfter(i) = [e.files EXCEPT ![e.scope] = e.after]
                /\ ( /\ i > 1
                     /\ klog[i - 1].op = "set"
                     /\ klog[i - 1].tool = e.tool
                     /\ klog[i - 1].scope = e.scope )
                   => e.after = klog[i - 1].after

\* a file with the key and another line is rewritten, then once more
C26_Witness ==
    /\ Len(klog) >= 2
    /\ klog[1].op = "set" /\ klog[2].op = "set"
    /\ klog[1].tool = klog[2].tool /\ klog[1].scope = klog[2].scope
    /\ klog[1].files[klog[1].scope].some
    /\ LET ls == SplitLines(klog[1].files[klog[1].scope].value)
       IN  /\ \E k \in 1..Len(ls) : StartsWithVar(klog[1].tool, ls[k])
           /\ \E k \in 1..Len(ls) : ~StartsWithVar(klog[1].tool, ls[k])

----------------------------------------------------------------------------
(* extract_colors (src/anvil/commands/palette.py) on a readable image *)

MaxEntries == 6

\* the default of num_colors, which grab uses
NumColors == 5

\* colours a palette may hold, as (r, g, b)
PaletteColors == {<<255, 0, 0>>, <<0, 10, 171>>, <<0, 0, 0>>}

\* what quantize(colors=5).getpalette() may give: the channels of one to
\* MaxEntries colours in a row; how many entries the palette of an image
\* with few colours has is Pillow's choice
Palettes == UNION {[1..n -> PaletteColors] : n \in 1..MaxEntries}

RECURSIVE Flatten(_)
Flatten(cs) == IF cs = <<>> THEN <<>> ELSE Head(cs) \o Flatten(Tail(cs))

HexDigits ==
    <<"0", "1", "2", "3", "4", "5", "6", "7",
      "8", "9", "a", "b", "c", "d", "e", "f">>

\* format(v, "02x") of a channel 0..255
Hex2(v) == <<HexDigits[(v \div 16) + 1], HexDigits[(v % 16) + 1]>>

\* line 45
HexColor(r, g, b) == <<"#">> \o Hex2(r) \o Hex2(g) \o Hex2(b)

\* lines 41-55: palette_colors[i * 3 + 2] beyond the end of the list
\* raises IndexError, which is reported and becomes typer.Exit(1)
ExtractColors(palette_colors, num_colors) ==
    IF \E i \in 0..(num_colors - 1) : i * 3 + 2 >= Len(palette_colors)
    THEN [done |-> TRUE, exit |-> 1, list |-> <<>>]
    ELSE [done |-> TRUE, exit |-> 0,
          list |-> [k \in 1..num_colors |->
                       HexColor(palette_colors[(k - 1) * 3 + 1],
                                palette_colors[(k - 1) * 3 + 2],
                                palette_colors[(k - 1) * 3 + 3])]]

InitPalette ==
    /\ \E p \in Palettes : image = Flatten(p)
    /\ colors = [done |-> FALSE, exit |-> 0, list |-> <<>>]
    /\ FirstIdle
    /\ BuildIdle
    /\ ConfigIdle
    /\ GenerateIdle
    /\ DoctorIdle

\* extract_colors(image_path)
PaletteExtract ==
    /\ ~colors.done
    /\ colors' = ExtractColors(image, NumColors)
    /\ UNCHANGED image
    /\ UNCHANGED besidesPalette

NextPalette == PaletteExtract

SpecPalette == InitPalette /\ [][NextPalette]_vars

----------------------------------------------------------------------------
(* C24 *)

IsHexColor(c) ==
    /\ Len(c) = 7
    /\ c[1] = "#"
    /\ \A k \in 2..7 : \E d \in 1..16 : c[k] = HexDigits[d]

\* C24: for every readable image, also one whose quantized palette has
\* fewer than 3 * num_colors entries, extract_colors returns a list of at
\* most five strings, each # followed by six lowercase hex digits.
C24_ReturnsHexColors ==
    colors.done =>
        /\ colors.exit = 0
        /\ Len(colors.list) <= NumColors
        /\ \A k \in 1..Len(colors.list) : IsHexColor(colors.list[k])

\* what does hold: with a palette of at least 3 * num_colors entries the
\* call returns exactly num_colors colours
C24_FullPaletteReturnsColors ==
    (colors.done /\ Len(image) >= 3 * NumColors) =>
        /\ colors.exit = 0
        /\ Len(colors.list) = NumColors
        /\ \A k \in 1..Len(colors.list) : IsHexColor(colors.list[k])

----------------------------------------------------------------------------
(* sketch create: generate() around stream_v0_response *)

\* generate() reporting no response whenever the stream ended in an error
Outcome_NeedsCleanEnd(response, no_files, err) ==
    IF response # <<>> /\ err = "none"
    THEN (IF ~no_files THEN "files" ELSE "skipped")
    ELSE "no_response"

\* lines 340-350: what generate() does with the returned text; err is the
\* exception stream_v0_response met, which generate() does not see
Outcome(response, no_files, err) ==
    IF response # <<>>
    THEN (IF ~no_files THEN "files" ELSE "skipped")
    ELSE "no_response"

InitGenerate ==
    /\ InitStream

\* asyncio.run(stream_v0_response(...)) has returned: with "files" the text
\* goes to parse_code_blocks and create_files, which Spec models from its
\* content on
GenerateReports ==
    /\ spc = "returned"
    /\ gen.outcome = "none"
    /\ \E nf \in BOOLEAN :
          gen' = [outcome |-> Outcome(ret, nf, fault),
                  no_files |-> nf,
                  text |-> IF Outcome(ret, nf, fault) = "files" THEN ret
                           ELSE <<>>]
    /\ UNCHANGED streamVars
    /\ UNCHANGED besidesGenerate

NextGenerate ==
    \/ NextStream
    \/ GenerateReports

SpecGenerate == InitGenerate /\ [][NextGenerate]_vars

----------------------------------------------------------------------------
(* C27 *)

\* the contents of the lines read so far
Accumulated == ContentsFrom(SubSeq(stream, 1, received), 1)

\* C27: when the stream ends with a timeout, a network error or another
\* exception, the text accumulated so far is what stream_v0_response
\* returns; sketch create parses and writes files from the returned text
\* exactly when it is not empty and --no-files is not given, and reports
\* `No response received` exactly when it is empty, as after a status
\* other than 200.
C27_PartialTextIsUsed ==
    /\ (spc = "returned" /\ fault # "none") => ret = Accumulated
    /\ (spc = "returned" /\ status \in ErrorStatuses) => ret = <<>>
    /\ gen.outcome # "none" =>
          /\ gen.outcome = "files" <=> (ret # <<>> /\ ~gen.no_files)
          /\ gen.outcome = "no_response" <=> ret = <<>>
          /\ gen.outcome = "files" => gen.text = ret

\* the stream broke after a content line and files are made of that text
C27_Witness ==
    /\ fault # "none"
    /\ received >= 1
    /\ received < Len(stream)
    /\ ret # <<>>
    /\ gen.outcome = "files"
    /\ gen.text = Accumulated

----------------------------------------------------------------------------
(* sketch doctor: should_include_file, read_codebase and doctor()          *)
(* A path is the sequence of its components, as Path.parts gives them; an  *)
(* absolute path starts with the component "/".                            *)

MaxFiles == 3

INCLUDE_EXTENSIONS ==
    {
      <<".","p","y">>, <<".","j","s">>, <<".","j","s","x">>, <<".","t","s">>,
      <<".","t","s","x">>, <<".","c","s","s">>, <<".","s","c","s","s">>,
      <<".","s","a","s","s">>, <<".","l","e","s","s">>,
      <<".","h","t","m","l">>, <<".","h","t","m">>, <<".","v","u","e">>,
      <<".","s","v","e","l","t","e">>, <<".","j","s","o","n">>,
      <<".","y","a","m","l">>, <<".","y","m","l">>, <<".","t","o","m","l">>,
      <<".","m","d">>, <<".","m","d","x">>, <<".","t","x","t">>,
      <<".","e","n","v">>, <<".","g","i","t","i","g","n","o","r","e">>,
      <<".","d","o","c","k","e","r","i","g","n","o","r","e">>,
      <<".","s","q","l">>, <<".","g","r","a","p","h","q","l">>,
      <<".","g","q","l">>, <<".","x","m","l">>, <<".","s","v","g">> }

EXCLUDE_DIRS ==
    {
      <<"n","o","d","e","_","m","o","d","u","l","e","s">>,
      <<".","g","i","t">>, <<".","s","v","n">>, <<".","h","g">>,
      <<"_","_","p","y","c","a","c","h","e","_","_">>,
      <<".","p","y","t","e","s","t","_","c","a","c","h","e">>,
      <<".","m","y","p","y","_","c","a","c","h","e">>,
      <<".","r","u","f","f","_","c","a","c","h","e">>, <<"d","i","s","t">>,
      <<"b","u","i","l","d">>, <<".","n","e","x","t">>,
      <<".","n","u","x","t">>, <<"c","o","v","e","r","a","g","e">>,
      <<"h","t","m","l","c","o","v">>,
      <<".","c","o","v","e","r","a","g","e">>, <<".","e","n","v">>,
      <<".","v","e","n","v">>, <<"v","e","n","v">>, <<"e","n","v">>,
      <<".","D","S","_","S","t","o","r","e">>,
      <<"T","h","u","m","b","s",".","d","b">>, <<".","i","d","e","a">>,
      <<".","v","s","c","o","d","e">>,
      <<"*",".","e","g","g","-","i","n","f","o">> }

\* the 100KB limit of line 377
SizeLimit == 100000

UpperCase == <<"A","B","C","D","E","F","G","H","I","J","K","L","M",
               "N","O","P","Q","R","S","T","U","V","W","X","Y","Z">>
LowerCase == <<"a","b","c","d","e","f","g","h","i","j","k","l","m",
               "n","o","p","q","r","s","t","u","v","w","x","y","z">>

\* str.lower() on ASCII
Lower(s) ==
    [i \in 1..Len(s) |->
        IF \E k \in 1..26 : UpperCase[k] = s[i]
        THEN LowerCase[CHOOSE k \in 1..26 : UpperCase[k] = s[i]]
        ELSE s[i]]

\* str.rfind("."): the last position of a dot, 0 if there is none
LastDot(name) ==
    IF \E i \in 1..Len(name) : name[i] = "."
    THEN CHOOSE i \in 1..Len(name) :
            name[i] = "." /\ \A j \in (i + 1)..Len(name) : name[j] # "."
    ELSE 0

\* PurePath.suffix: from the last dot on, unless the dot is the first or
\* the last character of the name
Suffix(name) ==
    IF LastDot(name) > 1 /\ LastDot(name) < Len(name)
    THEN SubSeq(name, LastDot(name), Len(name))
    ELSE <<>>

\* lines 371-373 looking only at the directory that holds the file
HasExcludedPart_ParentOnly(parts) ==
    Len(parts) >= 2 /\ parts[Len(parts) - 1] \in EXCLUDE_DIRS

\* lines 371-373
HasExcludedPart(parts) == \E i \in 1..Len(parts) : parts[i] \in EXCLUDE_DIRS

\* should_include_file(file_path) for a file of st_size bytes
should_include_file(parts, size) ==
    IF parts = <<>> \/ Lower(Suffix(parts[Len(parts)])) \notin INCLUDE_EXTENSIONS
    THEN FALSE
    ELSE IF HasExcludedPart(parts) THEN FALSE
    ELSE IF size > SizeLimit THEN FALSE
    ELSE TRUE

\* read_codebase testing the path relative to the base
RglobPath_Relative(base, rel) == rel

\* the paths base_path.rglob('*') yields: the base joined with the path
\* below it
RglobPath(base, rel) == base \o rel

\* read_codebase(base_path) over the regular files below base_path
read_codebase(base, tree) ==
    { [name |-> f.rel, content |-> f.content] :
        f \in {g \in tree : should_include_file(RglobPath(base, g.rel), g.size)} }

File(rel, size, text) == [rel |-> rel, size |-> size, content |-> text]

\* the regular files a tree may hold
TreeFiles ==
    {
      File(<<<<"a",".","p","y">>>>, 10, "code"),
      File(<<<<"s","r","c">>, <<"b",".","t","s">>>>, 10, "code"),
      File(<<<<".","e","n","v">>>>, 10, "secret"),
      File(<<<<"s","u","b">>, <<".","e","n","v">>>>, 100001, "secret"),
      File(<<<<".","e","n","v">>, <<"x",".","p","y">>>>, 10, "secret"),
      File(<<<<".","g","i","t">>, <<"h","o","o","k",".","p","y">>>>, 10, "code"),
      File(<<<<"n","o","d","e","_","m","o","d","u","l","e","s">>, <<"m">>, <<"i","n","d","e","x",".","j","s">>>>, 10, "code"),
      File(<<<<"R","E","A","D","M","E",".","M","D">>>>, 10, "text"),
      File(<<<<"n","o","t","e","s",".","b","i","n">>>>, 10, "text"),
      File(<<<<"p","r","o","d",".","e","n","v">>>>, 10, "other"),
      File(<<<<"M","a","k","e","f","i","l","e">>>>, 10, "text"),
      File(<<<<"e","d","g","e",".","p","y">>>>, 100000, "code"),
      File(<<<<"b","i","g",".","p","y">>>>, 100001, "code") }

\* the directory analysed: Path("."), two absolute directories, one of
\* them beneath a directory named build, and a relative one beneath env
Bases ==
    { <<>>,
      <<<<"/">>, <<"h","o","m","e">>, <<"u">>, <<"p","r","o","j">>>>,
      <<<<"/">>, <<"h","o","m","e">>, <<"u">>, <<"b","u","i","l","d">>, <<"p","r","o","j">>>>,
      <<<<"e","n","v">>, <<"a","p","p">>>> }

\* no regular file is also a directory that holds another one
IsTree(t) ==
    \A f \in t, g \in t :
        ~(Len(f.rel) < Len(g.rel) /\ SubSeq(g.rel, 1, Len(f.rel)) = f.rel)

InitDoctor ==
    /\ dbase \in Bases
    /\ dtree \in {t \in SUBSET TreeFiles : Cardinality(t) <= MaxFiles /\ IsTree(t)}
    /\ codebase = {}
    /\ dpc = "start"
    /\ FirstIdle
    /\ BuildIdle
    /\ ConfigIdle
    /\ PaletteIdle
    /\ GenerateIdle

\* doctor() from line 553 on: no file selected is exit status 1
DoctorReads ==
    /\ dpc = "start"
    /\ codebase' = read_codebase(dbase, dtree)
    /\ dpc' = IF codebase' = {} THEN "exit1" ELSE "analyse"
    /\ UNCHANGED <<dbase, dtree>>
    /\ UNCHANGED besidesDoctor

NextDoctor == DoctorReads

SpecDoctor == InitDoctor /\ [][NextDoctor]_vars

----------------------------------------------------------------------------
(* C29 *)

Excluded(name) == name \in EXCLUDE_DIRS

Selected(f) == \E c \in codebase : c.name = f.rel

\* C29: a file is rejected whenever a component of the analysed directory
\* or of the path below it is an EXCLUDE_DIRS name; so a directory that
\* lies beneath one named build, dist, env or venv yields no file, and
\* doctor ends with `No suitable files found` and exit status 1.
C29_BaseComponentsCount ==
    dpc # "start" =>
        /\ \A f \in dtree :
              ( \/ \E i \in 1..Len(dbase) : Excluded(dbase[i])
                \/ \E i \in 1..Len(f.rel) : Excluded(f.rel[i]) )
              => ~Selected(f)
        /\ (\E i \in 1..Len(dbase) : Excluded(dbase[i]))
              => (codebase = {} /\ dpc = "exit1")

\* a Python file right below an absolute base that lies beneath build
C29_Witness ==
    /\ dpc = "exit1"
    /\ dbase = <<<<"/">>, <<"h","o","m","e">>, <<"u">>, <<"b","u","i","l","d">>, <<"p","r","o","j">>>>
    /\ \E f \in dtree : f.rel = <<<<"a",".","p","y">>>>

----------------------------------------------------------------------------
(* C30 *)

\* C30: a file named .env, and a file beneath a directory with an
\* EXCLUDE_DIRS name, is not in the mapping read_codebase returns,
\* whatever its size and content.
C30_KeyFileNotRead ==
    dpc # "start" =>
        \A f \in dtree :
            ( \/ f.rel[Len(f.rel)] = <<".","e","n","v">>
              \/ \E i \in 1..(Len(f.rel) - 1) : Excluded(f.rel[i]) )
            => ~Selected(f)

\* files are selected, the .env beside them and the one in node_modules not
C30_Witness ==
    /\ dpc = "analyse"
    /\ \E f \in dtree : f.rel = <<<<".","e","n","v">>>>
    /\ \E f \in dtree : f.rel[1] = <<"n","o","d","e","_","m","o","d","u","l","e","s">>
    /\ codebase # {}

====
